---- MODULE Spec2Model ----
(***************************************************************************)
(* A model of the openapi-ts core: the IRContext event bus, plugin         *)
(* registration and files (ir/context.ts), the 3.1.x dialect parser        *)
(* (parseV3_1_X), the transform pass (transformOpenApiSpec) and the zod    *)
(* schema emitter (schemaToZodSchema).                                     *)
(***************************************************************************)
EXTENDS Integers, Sequences, FiniteSets, TLC

VARIABLES
    listeners,   \* IRContext.listeners: event -> array of {callbackFn, pluginName}
    bc,          \* the activation of the async function IRContext.broadcast
    calls,       \* what the running broadcast did to the listeners, in order
    config,      \* IRContext.config: pluginOrder and plugins
    plugins,     \* IRContext.plugins: name -> PluginInstance
    gen,         \* the generator returned by IRContext.registerPlugins
    ir,          \* IRContext.ir: the components and the operation of the model
    zodConfig,   \* the config of the zod plugin
    zodFile,     \* the file of the zod plugin: identifiers and nodes
    last,        \* the State the last event handler of the zod plugin worked with
    spec,        \* IRContext.spec: the OpenAPI document
    input,       \* config.input: the include and exclude filters
    parser,      \* parseV3_1_X: where it stands and the calls it has made
    files,       \* IRContext.files: id -> TypeScriptFile
    created,     \* the calls of IRContext.createFile so far, in their order
    transform,   \* transformOpenApiSpec: config.parser.transforms and what has run
    promise      \* a CancelablePromise of the generated client

busVars == <<listeners, bc, calls>>
plugVars == <<config, plugins, gen>>
zodVars == <<ir, zodConfig, zodFile, last>>
parserVars == <<spec, input, parser>>
fileVars == <<files, created>>
notBusVars == <<plugVars, zodVars, parserVars, fileVars, transform, promise>>
notPlugVars == <<busVars, zodVars, parserVars, fileVars, transform, promise>>
notZodVars == <<busVars, plugVars, parserVars, fileVars, transform, promise>>
notParserVars == <<busVars, plugVars, zodVars, fileVars, transform, promise>>
notFileVars == <<busVars, plugVars, zodVars, parserVars, transform, promise>>
vars == <<listeners, bc, calls, config, plugins, gen, ir, zodConfig, zodFile, last,
          spec, input, parser, files, created, transform, promise>>

(***************************************************************************)
(* Generic helpers.                                                        *)
(***************************************************************************)
Range(s) == {s[i] : i \in DOMAIN s}

IsPrefix(s, t) == Len(s) <= Len(t) /\ \A i \in 1..Len(s) : s[i] = t[i]

\* a JavaScript object { ...o, [k]: v }
Put(o, k, v) == [x \in DOMAIN o \cup {k} |-> IF x = k THEN v ELSE o[x]]

EmptyObject == [x \in {} |-> 0]

(***************************************************************************)
(* ir/context.ts: the event bus.                                           *)
(***************************************************************************)
\* the events of the Events interface that the model exercises
EventNames == {"schema", "operation"}

\* callback functions a plugin may pass to subscribe
Callbacks == {"f", "g"}

\* the pluginName argument of subscribe; Undefined is a call without it
Undefined == "undefined"
PluginNameArgs == {"zod", Undefined}

\* the payloads a broadcast may carry
Args == {"a1", "a2"}

\* values a listener may throw, or reject its promise with
ErrorValue(m) == [t |-> "Error", message |-> m]
ThrownValues == {ErrorValue("boom"), [t |-> "string", v |-> "oops"], [t |-> "number", v |-> 7]}

\* the most subscribe calls of one run
MaxSubscribe == 3

\* `pluginName ?? ''`
PluginNameOrEmpty(pluginName) == IF pluginName = Undefined THEN "" ELSE pluginName

\* String(error), for the values of ThrownValues that are no Error
StringOf(v) == IF v.t = "number" THEN ToString(v.v) ELSE v.v

\* `error instanceof Error ? error : new Error(String(error))`
OriginalErrorUnwrapped(error) == error

OriginalError(error) == IF error.t = "Error" THEN error ELSE ErrorValue(StringOf(error))

\* new HeyApiError({ args, error, event, name: 'BroadcastError', pluginName })
BroadcastError(b, listener, error) ==
    [name |-> "BroadcastError", event |-> b.event, args |-> b.args,
     pluginName |-> listener.pluginName, error |-> OriginalError(error)]

NoError == [name |-> "none", event |-> "", args |-> "", pluginName |-> "",
            error |-> ErrorValue("")]

BusInit ==
    /\ listeners = EmptyObject
    /\ bc = [pc |-> "idle", event |-> "schema", args |-> "a1", i |-> 0, error |-> NoError,
             size |-> 0]
    /\ calls = <<>>

TotalListeners == LET n[S \in SUBSET DOMAIN listeners] ==
                          IF S = {} THEN 0
                          ELSE LET e == CHOOSE x \in S : TRUE
                               IN Len(listeners[e]) + n[S \ {e}]
                  IN n[DOMAIN listeners]

\* IRContext.subscribe
Subscribe(event, callbackFn, pluginName) ==
    /\ TotalListeners < MaxSubscribe
    /\ LET old == IF event \in DOMAIN listeners THEN listeners[event] ELSE <<>>
       IN listeners' = Put(listeners, event,
              Append(old, [callbackFn |-> callbackFn,
                           pluginName |-> PluginNameOrEmpty(pluginName)]))
    /\ UNCHANGED <<bc, calls>>
    /\ UNCHANGED notBusVars

\* the array the for-of loop of broadcast walks: `this.listeners[event]`, read
\* once; subscribe pushes to that same array, so the loop sees later pushes
EventListeners(event) == IF event \in DOMAIN listeners THEN listeners[event] ELSE <<>>

NoValue == [t |-> "none"]

\* log entries: a listener is called; the call has settled (the listener threw
\* at once, or the promise it returned was fulfilled or rejected)
CallEntry(listener, args) ==
    [op |-> "call", callbackFn |-> listener.callbackFn,
     pluginName |-> listener.pluginName, args |-> args, how |-> "", value |-> NoValue]

SettledEntry(how, value) ==
    [op |-> "settled", callbackFn |-> "", pluginName |-> "", args |-> "",
     how |-> how, value |-> value]

\* One turn of the loop of broadcast from its head, with b.i listeners done:
\* the loop ends, or the next listener is called and either throws at once
\* (thrown is what it throws) or hands back a promise that broadcast awaits.
LoopTurnNoAwait(b, log, throws, thrown) ==
    LET ls == EventListeners(b.event)
        rest == [k \in 1..(Len(ls) - b.i) |-> CallEntry(ls[b.i + k], b.args)]
    IN IF b.i >= Len(ls)
       THEN [bc |-> [b EXCEPT !.pc = "resolved"], calls |-> log]
       ELSE [bc |-> [b EXCEPT !.pc = "awaiting", !.i = Len(ls)], calls |-> log \o rest]

\* the loop over a copy of the array, made when broadcast is called
LoopTurnOverCopy(b, log, throws, thrown) ==
    LET ls == SubSeq(EventListeners(b.event), 1, b.size) IN
    IF b.i >= Len(ls)
    THEN [bc |-> [b EXCEPT !.pc = "resolved"], calls |-> log]
    ELSE LET listener == ls[b.i + 1]
             called == Append(log, CallEntry(listener, b.args))
         IN IF throws
            THEN [bc |-> [b EXCEPT !.pc = "rejected", !.i = b.i + 1,
                                   !.error = BroadcastError(b, listener, thrown)],
                  calls |-> Append(called, SettledEntry("threw", thrown))]
            ELSE [bc |-> [b EXCEPT !.pc = "awaiting", !.i = b.i + 1], calls |-> called]

LoopTurn(b, log, throws, thrown) ==
    LET ls == EventListeners(b.event) IN
    IF b.i >= Len(ls)
    THEN [bc |-> [b EXCEPT !.pc = "resolved"], calls |-> log]
    ELSE LET listener == ls[b.i + 1]
             called == Append(log, CallEntry(listener, b.args))
         IN IF throws
            THEN [bc |-> [b EXCEPT !.pc = "rejected", !.i = b.i + 1,
                                   !.error = BroadcastError(b, listener, thrown)],
                  calls |-> Append(called, SettledEntry("threw", thrown))]
            ELSE [bc |-> [b EXCEPT !.pc = "awaiting", !.i = b.i + 1], calls |-> called]

\* IRContext.broadcast is called: it runs up to its first await; size keeps
\* the length the array of the event had at the call
BroadcastStart(event, args, throws, thrown) ==
    /\ bc.pc # "awaiting"
    /\ LET r == LoopTurn([pc |-> "running", event |-> event, args |-> args, i |-> 0,
                          error |-> NoError, size |-> Len(EventListeners(event))],
                         <<>>, throws, thrown)
       IN /\ bc' = r.bc
          /\ calls' = r.calls
    /\ UNCHANGED listeners
    /\ UNCHANGED notBusVars

\* the promise broadcast awaits is fulfilled: the loop goes on
ListenerFulfilled(throws, thrown) ==
    /\ bc.pc = "awaiting"
    /\ LET r == LoopTurn(bc, Append(calls, SettledEntry("fulfilled", NoValue)),
                         throws, thrown)
       IN /\ bc' = r.bc
          /\ calls' = r.calls
    /\ UNCHANGED listeners
    /\ UNCHANGED notBusVars

\* the promise broadcast awaits is rejected: the catch block wraps the reason
ListenerRejected(reason) ==
    /\ bc.pc = "awaiting"
    /\ bc' = [bc EXCEPT !.pc = "rejected",
                        !.error = BroadcastError(bc, EventListeners(bc.event)[bc.i], reason)]
    /\ calls' = Append(calls, SettledEntry("rejected", reason))
    /\ UNCHANGED listeners
    /\ UNCHANGED notBusVars

BusNext ==
    \/ \E e \in EventNames, f \in Callbacks, p \in PluginNameArgs : Subscribe(e, f, p)
    \/ \E e \in EventNames, a \in Args : BroadcastStart(e, a, FALSE, NoValue)
    \/ \E e \in EventNames, a \in Args, v \in ThrownValues : BroadcastStart(e, a, TRUE, v)
    \/ ListenerFulfilled(FALSE, NoValue)
    \/ \E v \in ThrownValues : ListenerFulfilled(TRUE, v)
    \/ \E v \in ThrownValues : ListenerRejected(v)

(***************************************************************************)
(* ir/context.ts: plugin registration.                                     *)
(***************************************************************************)
PluginNames == {"ts", "sdk", "zod"}

\* the sequences without repetition over the members of S
RECURSIVE OrdersOver(_)
OrdersOver(S) ==
    {<<>>} \cup UNION {{<<x>> \o o : o \in OrdersOver(S \ {x})} : x \in S}

\* a record of config.plugins: `dependencies` may be left out
PluginRecords(n) ==
    {[name |-> n]} \cup {[name |-> n, dependencies |-> d] : d \in SUBSET PluginNames}

PlugIdle ==
    /\ config = [pluginOrder |-> <<>>, plugins |-> EmptyObject]
    /\ plugins = EmptyObject
    /\ gen = [pc |-> "start", i |-> 0, value |-> [name |-> "", dependencies |-> {}]]

\* a context as its constructor leaves it; registerPlugins() has been called,
\* which runs nothing of the generator's body yet
PlugInit ==
    /\ \E order \in OrdersOver(PluginNames), have \in SUBSET PluginNames :
         \E recs \in [have -> UNION {PluginRecords(n) : n \in PluginNames}] :
            /\ \A n \in have : recs[n].name = n
            /\ config = [pluginOrder |-> order, plugins |-> recs]
    /\ plugins = EmptyObject
    /\ gen = [pc |-> "start", i |-> 0, value |-> [name |-> "", dependencies |-> {}]]

\* `plugin.dependencies ?? []`
DependenciesOrEmpty(plugin) ==
    IF "dependencies" \in DOMAIN plugin THEN plugin.dependencies ELSE {}

\* new PluginInstance({ ..., dependencies, name: plugin.name })
PluginInstance(plugin) ==
    [name |-> plugin.name, dependencies |-> DependenciesOrEmpty(plugin)]

\* the name the loop of registerPlugins takes after i names
LastNameFirst(i) == config.pluginOrder[Len(config.pluginOrder) - i]

NextName(i) == config.pluginOrder[i + 1]

\* the consumer calls next() on the generator: the body runs to its next
\* yield, through one call of registerPlugin, or to its end; reading
\* plugin.config of a name without a record throws a TypeError
GenNext ==
    /\ gen.pc \in {"start", "yielded"}
    /\ IF gen.i >= Len(config.pluginOrder)
       THEN /\ gen' = [gen EXCEPT !.pc = "done"]
            /\ UNCHANGED plugins
       ELSE LET name == NextName(gen.i) IN
            IF name \notin DOMAIN config.plugins
            THEN /\ gen' = [gen EXCEPT !.pc = "threw"]
                 /\ UNCHANGED plugins
            ELSE LET instance == PluginInstance(config.plugins[name]) IN
                 /\ plugins' = Put(plugins, instance.name, instance)
                 /\ gen' = [pc |-> "yielded", i |-> gen.i + 1, value |-> instance]
    /\ UNCHANGED config
    /\ UNCHANGED notPlugVars

PlugNext == GenNext

(***************************************************************************)
(* The zod plugin: the syntax trees the `compiler` helpers build.          *)
(***************************************************************************)
\* compiler.identifier({ text })
Identifier(text) == [k |-> "identifier", text |-> text]

\* compiler.propertyAccessExpression({ expression, name })
PropertyAccess(expression, name) ==
    [k |-> "propertyAccess", expression |-> expression, name |-> name]

\* compiler.callExpression({ functionName, parameters })
CallExpression(functionName, parameters) ==
    [k |-> "call", functionName |-> functionName, parameters |-> parameters]

\* compiler.arrowFunction({ statements: [compiler.returnStatement({ expression })] })
ArrowReturning(expression) == [k |-> "arrow", returns |-> expression]

\* ts.factory.createObjectLiteralExpression(properties, true), of
\* compiler.propertyAssignment({ initializer, name })
ObjectLiteral(properties) == [k |-> "objectLiteral", properties |-> properties]

PropertyAssignment(name, initializer) == [name |-> name, initializer |-> initializer]

\* compiler.arrayLiteralExpression({ elements })
ArrayLiteral(elements) == [k |-> "arrayLiteral", elements |-> elements]

\* compiler.stringLiteral, compiler.ots.string, ots.number, ots.boolean and
\* compiler.regularExpressionLiteral
StringLiteral(text) == [k |-> "stringLiteral", text |-> text]

NumericLiteral(n) == [k |-> "numericLiteral", number |-> n]

BooleanLiteral(b) == [k |-> "booleanLiteral", bool |-> b]

NullLiteral == [k |-> "nullLiteral"]

RegularExpressionLiteral(text) == [k |-> "regexLiteral", text |-> text]

zIdentifier == Identifier("z")

\* z.<name>(parameters)
ZCall(name, parameters) == CallExpression(PropertyAccess(zIdentifier, name), parameters)

\* <expression>.<name>(parameters)
MethodCall(expression, name, parameters) ==
    CallExpression(PropertyAccess(expression, name), parameters)

(***************************************************************************)
(* Values of the IR.  A JavaScript value carries its type; a field that is *)
(* undefined is a field the record does not have.                          *)
(***************************************************************************)
JString(s) == [t |-> "string", s |-> s]

JNumber(n) == [t |-> "number", n |-> n]

JBoolean(b) == [t |-> "boolean", b |-> b]

JNull == [t |-> "null"]

Has(o, field) == field \in DOMAIN o

\* compiler.valueToExpression({ value })
ValueToExpression(value) ==
    CASE value.t = "string" -> StringLiteral(value.s)
      [] value.t = "number" -> NumericLiteral(value.n)
      [] value.t = "boolean" -> BooleanLiteral(value.b)
      [] OTHER -> NullLiteral

\* A $ref is a JSON pointer, kept as the sequence of its segments:
\* '#/components/schemas/A' is <<"components", "schemas", "A">>.
SchemaRef(name) == <<"components", "schemas", name>>

ParameterRef(name) == <<"components", "parameters", name>>

RequestBodyRef(name) == <<"components", "requestBodies", name>>

\* `#/zod-data/${operation.id}` and `#/zod-response/${operation.id}`
ZodDataRef(id) == <<"zod-data", id>>

ZodResponseRef(id) == <<"zod-response", id>>

\* the node of `root` a pointer names
RECURSIVE ResolveRef(_, _)
ResolveRef(root, pointer) ==
    IF pointer = <<>> THEN root ELSE ResolveRef(root[Head(pointer)], Tail(pointer))

(***************************************************************************)
(* The file of the zod plugin: its table of identifiers and its nodes.     *)
(***************************************************************************)
\* the name derived from the last segment of a $ref by the transformer
\* 'z{{name}}' in camelCase
BaseName(ref) == "z" \o ref[Len(ref)]

\* a name of the table is never given twice: a taken name gets a number
RECURSIVE UniqueName(_, _, _)
UniqueName(names, base, n) ==
    LET candidate == IF n = 1 THEN base ELSE base \o ToString(n)
    IN IF \E r \in DOMAIN names : names[r] = candidate
       THEN UniqueName(names, base, n + 1)
       ELSE candidate

\* file.identifier({ $ref, create, ... }): the identifier and the table after
FileIdentifier(names, ref, create) ==
    IF ref \in DOMAIN names
    THEN [identifier |-> [name |-> names[ref], created |-> FALSE], names |-> names]
    ELSE IF create
         THEN LET name == UniqueName(names, BaseName(ref), 1)
              IN [identifier |-> [name |-> name, created |-> TRUE],
                  names |-> Put(names, ref, name)]
         ELSE [identifier |-> [name |-> "", created |-> FALSE], names |-> names]

\* file.add(statement)
FileAdd(nodes, statement) == Append(nodes, statement)

\* compiler.constVariable({ exportConst: true, expression, name, typeName })
ConstVariable(name, expression, typeName) ==
    [name |-> name, expression |-> expression, typeName |-> typeName]

NoTypeName == "undefined"

(***************************************************************************)
(* The zod plugin: the emitters of the schemas that hold no other schema.  *)
(***************************************************************************)
\* unknownTypeToZodSchema, neverTypeToZodSchema, nullTypeToZodSchema,
\* undefinedTypeToZodSchema, voidTypeToZodSchema
UnknownTypeToZodSchema == ZCall("unknown", <<>>)

NeverTypeToZodSchema == ZCall("never", <<>>)

NullTypeToZodSchema == ZCall("null", <<>>)

UndefinedTypeToZodSchema == ZCall("undefined", <<>>)

VoidTypeToZodSchema == ZCall("void", <<>>)

BooleanTypeToZodSchema(schema) ==
    IF Has(schema, "const") /\ schema.const.t = "boolean"
    THEN ZCall("literal", <<BooleanLiteral(schema.const.b)>>)
    ELSE ZCall("boolean", <<>>)

\* the enum members that are string constants, in their order
RECURSIVE EnumMembers(_)
EnumMembers(items) ==
    IF items = <<>> THEN <<>>
    ELSE LET item == Head(items)
             isString == /\ Has(item, "type") /\ item.type = "string"
                         /\ Has(item, "const") /\ item.const.t = "string"
         IN (IF isString THEN <<StringLiteral(item.const.s)>> ELSE <<>>)
                \o EnumMembers(Tail(items))

\* a member that is no string constant makes the enum nullable when its type
\* is null or its const is null
EnumIsNullable(items) ==
    \E i \in 1..Len(items) :
        LET item == items[i] IN
        /\ ~(/\ Has(item, "type") /\ item.type = "string"
             /\ Has(item, "const") /\ item.const.t = "string")
        /\ \/ Has(item, "type") /\ item.type = "null"
           \/ Has(item, "const") /\ item.const.t = "null"

\* the enum that is nullable also when it has no member
EnumTypeToZodSchemaNullableUnknown(schema) ==
    LET items == IF Has(schema, "items") THEN schema.items ELSE <<>>
        enumMembers == EnumMembers(items)
        enumExpression == IF enumMembers = <<>> THEN UnknownTypeToZodSchema
                          ELSE ZCall("enum", <<ArrayLiteral(enumMembers)>>)
    IN IF EnumIsNullable(items) THEN MethodCall(enumExpression, "nullable", <<>>)
       ELSE enumExpression

EnumTypeToZodSchema(schema) ==
    LET items == IF Has(schema, "items") THEN schema.items ELSE <<>>
        enumMembers == EnumMembers(items)
        enumExpression == ZCall("enum", <<ArrayLiteral(enumMembers)>>)
    IN IF enumMembers = <<>> THEN UnknownTypeToZodSchema
       ELSE IF EnumIsNullable(items) THEN MethodCall(enumExpression, "nullable", <<>>)
       ELSE enumExpression

NumberParameter(isBigInt, value) ==
    LET expression == ValueToExpression(value) IN
    IF isBigInt /\ value.t \in {"bigint", "number", "string", "boolean"}
    THEN CallExpression(Identifier("BigInt"), <<expression>>)
    ELSE expression

\* the big integer of every schema of format int64, whatever its type
IsBigIntOfAnyType(schema) == Has(schema, "format") /\ schema.format = "int64"

IsBigInt(schema) ==
    /\ Has(schema, "type") /\ schema.type = "integer"
    /\ Has(schema, "format") /\ schema.format = "int64"

\* the number whose inclusive bounds win over its exclusive bounds
NumberTypeToZodSchemaInclusiveFirst(schema) ==
    LET isBigInt == IsBigInt(schema)
        base == IF isBigInt
                THEN CallExpression(
                         PropertyAccess(PropertyAccess(zIdentifier, "coerce"), "bigint"), <<>>)
                ELSE ZCall("number", <<>>)
        whole == IF ~isBigInt /\ schema.type = "integer"
                 THEN MethodCall(base, "int", <<>>) ELSE base
        lower == IF Has(schema, "minimum")
                 THEN MethodCall(whole, "gte",
                          <<NumberParameter(isBigInt, JNumber(schema.minimum))>>)
                 ELSE IF Has(schema, "exclusiveMinimum")
                 THEN MethodCall(whole, "gt",
                          <<NumberParameter(isBigInt, JNumber(schema.exclusiveMinimum))>>)
                 ELSE whole
        upper == IF Has(schema, "maximum")
                 THEN MethodCall(lower, "lte",
                          <<NumberParameter(isBigInt, JNumber(schema.maximum))>>)
                 ELSE IF Has(schema, "exclusiveMaximum")
                 THEN MethodCall(lower, "lt",
                          <<NumberParameter(isBigInt, JNumber(schema.exclusiveMaximum))>>)
                 ELSE lower
    IN IF Has(schema, "const") /\ schema.const.t = "number"
       THEN ZCall("literal", <<NumericLiteral(schema.const.n)>>)
       ELSE upper

NumberTypeToZodSchema(schema) ==
    LET isBigInt == IsBigInt(schema)
        base == IF isBigInt
                THEN CallExpression(
                         PropertyAccess(PropertyAccess(zIdentifier, "coerce"), "bigint"), <<>>)
                ELSE ZCall("number", <<>>)
        whole == IF ~isBigInt /\ schema.type = "integer"
                 THEN MethodCall(base, "int", <<>>) ELSE base
        lower == IF Has(schema, "exclusiveMinimum")
                 THEN MethodCall(whole, "gt",
                          <<NumberParameter(isBigInt, JNumber(schema.exclusiveMinimum))>>)
                 ELSE IF Has(schema, "minimum")
                 THEN MethodCall(whole, "gte",
                          <<NumberParameter(isBigInt, JNumber(schema.minimum))>>)
                 ELSE whole
        upper == IF Has(schema, "exclusiveMaximum")
                 THEN MethodCall(lower, "lt",
                          <<NumberParameter(isBigInt, JNumber(schema.exclusiveMaximum))>>)
                 ELSE IF Has(schema, "maximum")
                 THEN MethodCall(lower, "lte",
                          <<NumberParameter(isBigInt, JNumber(schema.maximum))>>)
                 ELSE lower
    IN IF Has(schema, "const") /\ schema.const.t = "number"
       THEN ZCall("literal", <<NumericLiteral(schema.const.n)>>)
       ELSE upper

\* the refinement of a string format, "" for a format that has none
StringFormatMethod(format) ==
    CASE format = "date-time" -> "datetime"
      [] format \in {"ipv4", "ipv6"} -> "ip"
      [] format = "uri" -> "url"
      [] format \in {"date", "email", "time", "uuid"} -> format
      [] OTHER -> ""

\* .length(n), or .min(n) and .max(n), of arrayTypeToZodSchema and
\* stringTypeToZodSchema
LengthRefinements(expression, schema, minField, maxField) ==
    IF Has(schema, minField) /\ Has(schema, maxField) /\ schema[minField] = schema[maxField]
    THEN MethodCall(expression, "length", <<NumericLiteral(schema[minField])>>)
    ELSE LET lower == IF Has(schema, minField)
                      THEN MethodCall(expression, "min", <<NumericLiteral(schema[minField])>>)
                      ELSE expression
         IN IF Has(schema, maxField)
            THEN MethodCall(lower, "max", <<NumericLiteral(schema[maxField])>>)
            ELSE lower

\* the string whose pattern is chained before its length
StringTypeToZodSchemaRegexFirst(schema) ==
    LET base == ZCall("string", <<>>)
        formatted == IF Has(schema, "format") /\ StringFormatMethod(schema.format) # ""
                     THEN MethodCall(base, StringFormatMethod(schema.format), <<>>)
                     ELSE base
        matched == IF Has(schema, "pattern") /\ schema.pattern # ""
                   THEN MethodCall(formatted, "regex",
                            <<RegularExpressionLiteral(schema.pattern)>>)
                   ELSE formatted
    IN IF Has(schema, "const") /\ schema.const.t = "string"
       THEN ZCall("literal", <<StringLiteral(schema.const.s)>>)
       ELSE LengthRefinements(matched, schema, "minLength", "maxLength")

StringTypeToZodSchema(schema) ==
    LET base == ZCall("string", <<>>)
        formatted == IF Has(schema, "format") /\ StringFormatMethod(schema.format) # ""
                     THEN MethodCall(base, StringFormatMethod(schema.format), <<>>)
                     ELSE base
        sized == LengthRefinements(formatted, schema, "minLength", "maxLength")
    IN IF Has(schema, "const") /\ schema.const.t = "string"
       THEN ZCall("literal", <<StringLiteral(schema.const.s)>>)
       ELSE IF Has(schema, "pattern") /\ schema.pattern # ""
       THEN MethodCall(sized, "regex", <<RegularExpressionLiteral(schema.pattern)>>)
       ELSE sized

(***************************************************************************)
(* deduplicateSchema of ir/schema: items that repeat an earlier item are   *)
(* dropped; a schema without type left with one item becomes that item,    *)
(* which is the case lines 1275-1281 of schemaToZodSchema take up.         *)
(***************************************************************************)
RECURSIVE UniqueItems(_, _)
UniqueItems(items, seen) ==
    IF items = <<>> THEN seen
    ELSE IF \E i \in 1..Len(seen) : seen[i] = Head(items)
         THEN UniqueItems(Tail(items), seen)
         ELSE UniqueItems(Tail(items), Append(seen, Head(items)))

Without(o, fields) == [f \in DOMAIN o \ fields |-> o[f]]

\* { ...a, ...b }
Spread(a, b) == [f \in DOMAIN a \cup DOMAIN b |-> IF f \in DOMAIN b THEN b[f] ELSE a[f]]

DeduplicateSchema(schema) ==
    IF ~Has(schema, "items") THEN schema
    ELSE LET items == UniqueItems(schema.items, <<>>)
         IN IF Len(items) = 1 /\ ~Has(schema, "type")
            THEN Spread(Without(schema, {"items", "logicalOperator"}), items[1])
            ELSE [schema EXCEPT !.items = items]

(***************************************************************************)
(* The zod plugin: schemaToZodSchema.  The emitter is one recursion over   *)
(* the schema; `st` is what it reads and writes on its way: the State of   *)
(* the event handler, the identifiers and nodes of the file, and a record  *)
(* of the references it met and of the calls with a $ref it is inside of.  *)
(***************************************************************************)
\* the deepest nesting of calls with a $ref the model follows; a call that
\* would go deeper marks the state with overflow and the calls around it
\* return at once
MaxDepth == 7

\* the State that starts with hasCircularReference set
FreshStateWithCircularReference(file) ==
    [state |-> [circularReferenceTracker |-> {}, hasCircularReference |-> TRUE],
     names |-> file.names, nodes |-> file.nodes,
     trace |-> <<>>, active |-> <<>>, maxDepth |-> 0, overflow |-> FALSE]

\* new State of an event handler, on the file as it is
FreshState(file) ==
    [state |-> [circularReferenceTracker |-> {}, hasCircularReference |-> FALSE],
     names |-> file.names, nodes |-> file.nodes,
     trace |-> <<>>, active |-> <<>>, maxDepth |-> 0, overflow |-> FALSE]

TraceEntry(op, ref, st, lazy) ==
    [op |-> op, ref |-> ref, tracker |-> st.state.circularReferenceTracker,
     active |-> st.active, lazy |-> lazy]

NoAnyType == ""

NoIdentifier == [name |-> "", created |-> FALSE]

\* `if (!identifierRef.name)`: the referenced schema has no name yet
AlwaysInline(identifierRef) == TRUE

MustInline(identifierRef) == identifierRef.name = ""

\* the $ref added to the tracker only when the tracker is empty
EnterRefOnceInTracker(st, ref) ==
    LET inside == [st EXCEPT !.state.circularReferenceTracker =
                                 IF @ = {} THEN {ref} ELSE @,
                             !.active = Append(@, ref)]
    IN [inside EXCEPT !.trace = Append(@, TraceEntry("enter", ref, inside, FALSE)),
                  !.maxDepth = IF Len(inside.active) > @ THEN Len(inside.active) ELSE @]

\* `if ($ref) { state.circularReferenceTracker.add($ref) ... }`
EnterRef(st, ref) ==
    LET inside == [st EXCEPT !.state.circularReferenceTracker = @ \cup {ref},
                         !.active = Append(@, ref)]
    IN [inside EXCEPT !.trace = Append(@, TraceEntry("enter", ref, inside, FALSE)),
                  !.maxDepth = IF Len(inside.active) > @ THEN Len(inside.active) ELSE @]

\* `if ($ref) { state.circularReferenceTracker.delete($ref) }`
LeaveRefKeepingTracker(st, ref) ==
    LET outside == [st EXCEPT !.active = SubSeq(@, 1, Len(@) - 1)]
    IN [outside EXCEPT !.trace = Append(@, TraceEntry("leave", ref, outside, FALSE))]

LeaveRef(st, ref) ==
    LET outside == [st EXCEPT !.state.circularReferenceTracker = @ \ {ref},
                          !.active = SubSeq(@, 1, Len(@) - 1)]
    IN [outside EXCEPT !.trace = Append(@, TraceEntry("leave", ref, outside, FALSE))]

\* `expression.and(item)` over the items after the first
RECURSIVE AndChain(_, _)
AndChain(expression, items) ==
    IF items = <<>> THEN expression
    ELSE AndChain(MethodCall(expression, "and", <<Head(items)>>), Tail(items))

\* the type annotation of a declaration
TypeNameWithoutAnyType(st, anyType) ==
    IF st.state.hasCircularReference THEN "ZodTypeAny" ELSE NoTypeName

TypeName(st, anyType) ==
    IF st.state.hasCircularReference
    THEN (IF anyType # NoAnyType THEN anyType ELSE "ZodTypeAny")
    ELSE NoTypeName

\* the lazy reference is taken when the reference is circular
IsCircularNever(st, ref) == FALSE

IsCircularReference(st, ref) == ref \in st.state.circularReferenceTracker

\* the declaration is emitted for an identifier this call made
EmitsAlways(identifier) == identifier.name # ""

Emits(identifier) == identifier.name # "" /\ identifier.created

RECURSIVE SchemaToZodSchema(_, _, _, _)
RECURSIVE SchemaTypeToZodSchema(_, _, _, _)
RECURSIVE ItemsToZodSchema(_, _, _, _, _)
RECURSIVE PropertiesToZodSchema(_, _, _, _, _, _)

\* the item r is done: on to the items after it, in the state it left
ItemsAfter(items, cfg, root, done, r) ==
    IF r.st.overflow THEN [expressions |-> Append(done, r.expression), st |-> r.st]
    ELSE ItemsToZodSchema(items, cfg, root, r.st, Append(done, r.expression))

\* schema.items.map((item) => schemaToZodSchema({ plugin, schema: item, state }))
ItemsToZodSchema(items, cfg, root, st, done) ==
    IF items = <<>> THEN [expressions |-> done, st |-> st]
    ELSE ItemsAfter(Tail(items), cfg, root, done,
                    SchemaToZodSchema([schema |-> Head(items)], cfg, root, st))

\* the names the model uses that are array indices, in ascending order
IndexNames == <<"0", "1", "2">>

\* `for (const name in schema.properties)`: the own keys of a JavaScript
\* object are its array indices in ascending order, then its other keys in
\* the order they were inserted
ForIn(properties) ==
    LET present(name) == \E i \in 1..Len(properties) : properties[i].name = name
        named(property) == \A i \in 1..Len(IndexNames) : IndexNames[i] # property.name
        indexed == SelectSeq(IndexNames, present)
    IN [i \in 1..Len(indexed) |->
           properties[CHOOSE j \in 1..Len(properties) : properties[j].name = indexed[i]]]
       \o SelectSeq(properties, named)

\* every property required as soon as one is
IsRequiredWhenAnyIs(required, name) == required # <<>>

\* `required.includes(name)`
IsRequired(required, name) == \E i \in 1..Len(required) : required[i] = name

\* the property `name` is done: on to the properties after it
PropertiesAfter(properties, required, cfg, root, done, name, r) ==
    IF r.st.overflow
    THEN [properties |-> Append(done, PropertyAssignment(name, r.expression)), st |-> r.st]
    ELSE PropertiesToZodSchema(properties, required, cfg, root, r.st,
                               Append(done, PropertyAssignment(name, r.expression)))

\* the loop of objectTypeToZodSchema over schema.properties
PropertiesToZodSchema(properties, required, cfg, root, st, done) ==
    IF properties = <<>> THEN [properties |-> done, st |-> st]
    ELSE PropertiesAfter(Tail(properties), required, cfg, root, done, Head(properties).name,
             SchemaToZodSchema(
                 [schema |-> Head(properties).schema,
                  optional |-> ~IsRequired(required, Head(properties).name)],
                 cfg, root, st))

\* what schemaTypeToZodSchema returns for a schema that holds no other schema
Leaf(expression, st) == [expression |-> expression, anyType |-> NoAnyType, st |-> st]

\* arrayTypeToZodSchema once its items are emitted
ArrayExpression(schema, r) ==
    [expression |->
        LengthRefinements(
            IF Len(r.expressions) = 1
            THEN ZCall("array", r.expressions)
            ELSE ZCall("array", <<ZCall("union", <<ArrayLiteral(r.expressions)>>)>>),
            schema, "minItems", "maxItems"),
     anyType |-> NoAnyType, st |-> r.st]

\* arrayTypeToZodSchema, of the deduplicated schema when it has items
ArrayTypeToZodSchema(schema, cfg, root, st) ==
    IF ~Has(schema, "items")
    THEN Leaf(LengthRefinements(ZCall("array", <<UnknownTypeToZodSchema>>),
                                schema, "minItems", "maxItems"), st)
    ELSE ArrayExpression(schema, ItemsToZodSchema(schema.items, cfg, root, st, <<>>))

\* objectTypeToZodSchema once its properties are emitted
ObjectExpression(r) ==
    [expression |-> ZCall("object", <<ObjectLiteral(r.properties)>>),
     anyType |-> "AnyZodObject", st |-> r.st]

\* tupleTypeToZodSchema once its items are emitted
TupleExpression(r) ==
    [expression |-> ZCall("tuple", <<ArrayLiteral(r.expressions)>>),
     anyType |-> NoAnyType, st |-> r.st]

\* schemaTypeToZodSchema, with arrayTypeToZodSchema, objectTypeToZodSchema
\* and tupleTypeToZodSchema
SchemaTypeToZodSchema(schema, cfg, root, st) ==
    CASE schema.type = "array" ->
           ArrayTypeToZodSchema(IF Has(schema, "items") THEN DeduplicateSchema(schema)
                                ELSE schema, cfg, root, st)
      [] schema.type = "boolean" -> Leaf(BooleanTypeToZodSchema(schema), st)
      [] schema.type = "enum" -> Leaf(EnumTypeToZodSchema(schema), st)
      [] schema.type \in {"integer", "number"} -> Leaf(NumberTypeToZodSchema(schema), st)
      [] schema.type = "never" -> Leaf(NeverTypeToZodSchema, st)
      [] schema.type = "null" -> Leaf(NullTypeToZodSchema, st)
      [] schema.type = "object" ->
           ObjectExpression(PropertiesToZodSchema(
               ForIn(IF Has(schema, "properties") THEN schema.properties ELSE <<>>),
               IF Has(schema, "required") THEN schema.required ELSE <<>>,
               cfg, root, st, <<>>))
      [] schema.type = "string" -> Leaf(StringTypeToZodSchema(schema), st)
      [] schema.type = "tuple" ->
           IF Has(schema, "const")
           THEN Leaf(ZCall("tuple", <<ArrayLiteral(
                    [i \in 1..Len(schema.const) |->
                        ZCall("literal", <<ValueToExpression(schema.const[i])>>)])>>), st)
           ELSE TupleExpression(ItemsToZodSchema(
                    IF Has(schema, "items") THEN schema.items ELSE <<>>,
                    cfg, root, st, <<>>))
      [] schema.type = "undefined" -> Leaf(UndefinedTypeToZodSchema, st)
      [] schema.type = "unknown" -> Leaf(UnknownTypeToZodSchema, st)
      [] schema.type = "void" -> Leaf(VoidTypeToZodSchema, st)

\* lines 1135-1147: the $ref of the call enters the tracker and, unless the
\* caller gave an identifier, gets the identifier of the file, made if need be
WithIdentifier(st, made) ==
    [identifier |-> made.identifier, st |-> [st EXCEPT !.names = made.names]]

Identified(a, st) ==
    IF Has(a, "identifier") THEN [identifier |-> a.identifier, st |-> st]
    ELSE WithIdentifier(st, FileIdentifier(st.names, a.ref, TRUE))

EnterSchema(a, st0) ==
    IF Has(a, "ref") THEN Identified(a, EnterRef(st0, a.ref))
    ELSE [identifier |-> IF Has(a, "identifier") THEN a.identifier ELSE NoIdentifier,
          st |-> st0]

\* lines 1159-1180: the schema of a reference that has no name is emitted now
AfterInline(target, r) ==
    IF r.st.overflow
    THEN [expression |-> r.expression, st |-> r.st, identifierRef |-> NoIdentifier]
    ELSE [expression |-> r.expression, st |-> r.st,
     identifierRef |-> FileIdentifier(r.st.names, target, FALSE).identifier]

Inlined(target, cfg, root, st1, before) ==
    IF MustInline(before)
    THEN AfterInline(target,
             SchemaToZodSchema([ref |-> target, schema |-> ResolveRef(root, target)],
                               cfg, root, st1))
    ELSE [expression |-> UnknownTypeToZodSchema, st |-> st1, identifierRef |-> before]

\* lines 1182-1202: the name of the reference, lazy when it is circular
RefExpression(schema, st1, inlined) ==
    IF inlined.identifierRef.name # ""
    THEN IF IsCircularReference(st1, schema.ref)
         THEN [expression |-> ZCall("lazy",
                   <<ArrowReturning(Identifier(inlined.identifierRef.name))>>),
               anyType |-> NoAnyType, schema |-> schema,
               st |-> [inlined.st EXCEPT
                           !.state.hasCircularReference = TRUE,
                           !.trace = Append(@, TraceEntry("ref", schema.ref, st1, TRUE))]]
         ELSE [expression |-> Identifier(inlined.identifierRef.name),
               anyType |-> NoAnyType, schema |-> schema,
               st |-> [inlined.st EXCEPT
                           !.trace = Append(@, TraceEntry("ref", schema.ref, st1, FALSE))]]
    ELSE [expression |-> inlined.expression, anyType |-> NoAnyType, schema |-> schema,
          st |-> inlined.st]

\* lines 1149-1202
RefToZodSchema(schema, cfg, root, st1) ==
    RefExpression(schema, st1,
        Inlined(schema.ref, cfg, root, st1,
                FileIdentifier(st1.names, schema.ref, FALSE).identifier))

\* lines 1203-1221: the schema of the type, described when metadata is on
Described(schema, cfg, zodSchema) ==
    [expression |-> IF cfg.metadata /\ Has(schema, "description")
                    THEN MethodCall(zodSchema.expression, "describe",
                             <<StringLiteral(schema.description)>>)
                    ELSE zodSchema.expression,
     anyType |-> zodSchema.anyType, schema |-> schema, st |-> zodSchema.st]

\* the intersection that looks at every item, not at the first
CombinedEveryItem(schema, r) ==
    [expression |->
        IF Has(schema, "logicalOperator") /\ schema.logicalOperator = "and"
        THEN IF \E i \in 1..Len(schema.items) :
                    ~(Has(schema.items[i], "type") /\ schema.items[i].type = "object")
             THEN ZCall("intersection", r.expressions)
             ELSE AndChain(Head(r.expressions), Tail(r.expressions))
        ELSE ZCall("union", <<ArrayLiteral(r.expressions)>>),
     anyType |-> NoAnyType, schema |-> schema, st |-> r.st]

\* lines 1239-1273: the items of a composite schema, combined
Combined(schema, r) ==
    [expression |->
        IF Has(schema, "logicalOperator") /\ schema.logicalOperator = "and"
        THEN IF \/ /\ Has(schema.items[1], "logicalOperator")
                   /\ schema.items[1].logicalOperator = "or"
                \/ /\ Has(schema.items[1], "type")
                   /\ schema.items[1].type # "object"
             THEN ZCall("intersection", r.expressions)
             ELSE AndChain(Head(r.expressions), Tail(r.expressions))
        ELSE ZCall("union", <<ArrayLiteral(r.expressions)>>),
     anyType |-> NoAnyType, schema |-> schema, st |-> r.st]

\* lines 1275-1281: the one schema that deduplication left
Single(schema, r) ==
    [expression |-> r.expression, anyType |-> NoAnyType, schema |-> schema, st |-> r.st]

\* lines 1222-1281, of the deduplicated schema
CompositeToZodSchema(schema, cfg, root, st1) ==
    IF Has(schema, "items")
    THEN Combined(schema, ItemsToZodSchema(schema.items, cfg, root, st1, <<>>))
    ELSE Single(schema, SchemaToZodSchema([schema |-> schema], cfg, root, st1))

\* the dispatch that looks at schema.type before schema.$ref
SchemaBodyTypeFirst(schema, cfg, root, st1) ==
    IF Has(schema, "type")
    THEN Described(schema, cfg, SchemaTypeToZodSchema(schema, cfg, root, st1))
    ELSE IF Has(schema, "ref") THEN RefToZodSchema(schema, cfg, root, st1)
    ELSE IF Has(schema, "items")
    THEN CompositeToZodSchema(DeduplicateSchema(schema), cfg, root, st1)
    ELSE [expression |-> UnknownTypeToZodSchema, anyType |-> NoAnyType,
          schema |-> schema, st |-> st1]

\* lines 1149-1294: the expression of the schema
SchemaBody(schema, cfg, root, st1) ==
    IF Has(schema, "ref") THEN RefToZodSchema(schema, cfg, root, st1)
    ELSE IF Has(schema, "type")
    THEN Described(schema, cfg, SchemaTypeToZodSchema(schema, cfg, root, st1))
    ELSE IF Has(schema, "items")
    THEN CompositeToZodSchema(DeduplicateSchema(schema), cfg, root, st1)
    ELSE [expression |-> UnknownTypeToZodSchema, anyType |-> NoAnyType,
          schema |-> schema, st |-> st1]

\* lines 1296-1298
LeaveSchema(a, st) == IF Has(a, "ref") THEN LeaveRef(st, a.ref) ELSE st

\* lines 1300-1335: .readonly(), .optional(), .default(), in this order
Readonly(schema, expression) ==
    IF Has(schema, "accessScope") /\ schema.accessScope = "read"
    THEN MethodCall(expression, "readonly", <<>>)
    ELSE expression

Optional(a, expression) ==
    IF Has(a, "optional") /\ a.optional
    THEN MethodCall(expression, "optional", <<>>)
    ELSE expression

Default(schema, expression) ==
    IF Has(schema, "default")
    THEN MethodCall(expression, "default",
             <<NumberParameter(IsBigInt(schema), schema.default)>>)
    ELSE expression

\* lines 1337-1354: the declaration, added to the file
Emitted(identifier, expression, anyType, st3) ==
    [expression |-> expression,
     st |-> IF Emits(identifier)
            THEN [st3 EXCEPT !.nodes = FileAdd(@,
                     ConstVariable(identifier.name, expression, TypeName(st3, anyType))),
                             !.trace = Append(@, [op |-> "declare", name |-> identifier.name,
                                                  tracker |-> st3.state.circularReferenceTracker,
                                                  active |-> st3.active])]
            ELSE st3]

\* lines 1296-1356
Finished(a, identifier, body) ==
    IF body.st.overflow THEN [expression |-> body.expression, st |-> body.st]
    ELSE Emitted(identifier,
            Default(body.schema, Optional(a, Readonly(body.schema, body.expression))),
            body.anyType, LeaveSchema(a, body.st))

\* lines 1149-1356
Entered(a, cfg, root, entered) ==
    Finished(a, entered.identifier, SchemaBody(a.schema, cfg, root, entered.st))

\* schemaToZodSchema({ $ref, identifier, optional, plugin, schema, state }):
\* `a` holds schema and whichever of ref, identifier, optional the call gives;
\* cfg is plugin.config and root is plugin.context.ir
SchemaToZodSchema(a, cfg, root, st0) ==
    IF Has(a, "ref") /\ Len(st0.active) >= MaxDepth
    THEN [expression |-> UnknownTypeToZodSchema, st |-> [st0 EXCEPT !.overflow = TRUE]]
    ELSE Entered(a, cfg, root, EnterSchema(a, st0))

(***************************************************************************)
(* The zod plugin: operationToZodSchema and the four event handlers.       *)
(***************************************************************************)
\* hasParameterGroupObjectRequired of ir/parameter: some member is required
HasParameterGroupObjectRequired(group) ==
    \E i \in 1..Len(group) : Has(group[i], "required") /\ group[i].required

\* a parameter group of the operation, or the empty group when it has none
ParameterGroup(operation, place) ==
    IF Has(operation, "parameters") /\ Has(operation.parameters, place)
    THEN operation.parameters[place] ELSE <<>>

HasGroup(operation, place) == Has(operation, "parameters") /\ Has(operation.parameters, place)

\* <group>PropertyProperties and <group>PropertyRequired
GroupProperties(group) ==
    [i \in 1..Len(group) |-> [name |-> group[i].name, schema |-> group[i].schema]]

RECURSIVE GroupRequired(_)
GroupRequired(group) ==
    IF group = <<>> THEN <<>>
    ELSE (IF Has(Head(group), "required") /\ Head(group).required
          THEN <<Head(group).name>> ELSE <<>>) \o GroupRequired(Tail(group))

NeverSchema == [type |-> "never"]

\* the group as an object, also when it has no parameter
GroupSchemaAlwaysObject(group) ==
    [type |-> "object", properties |-> GroupProperties(group),
     required |-> GroupRequired(group)]

GroupSchema(group) ==
    IF Len(GroupProperties(group)) > 0
    THEN [type |-> "object", properties |-> GroupProperties(group),
          required |-> GroupRequired(group)]
    ELSE NeverSchema

\* requiredProperties, lines 967-1023
RequiredProperties(operation) ==
    (IF Has(operation, "body") /\ Has(operation.body, "required") /\ operation.body.required
     THEN <<"body">> ELSE <<>>)
    \o (IF HasGroup(operation, "header")
           /\ HasParameterGroupObjectRequired(ParameterGroup(operation, "path"))
        THEN <<"headers">> ELSE <<>>)
    \o (IF HasGroup(operation, "path")
           /\ HasParameterGroupObjectRequired(ParameterGroup(operation, "path"))
        THEN <<"path">> ELSE <<>>)
    \o (IF HasGroup(operation, "query")
           /\ HasParameterGroupObjectRequired(ParameterGroup(operation, "query"))
        THEN <<"query">> ELSE <<>>)

\* the schema of the request of an operation, lines 1038-1075
RequestSchema(operation) ==
    [type |-> "object",
     properties |-> <<
        [name |-> "body",
         schema |-> IF Has(operation, "body") THEN operation.body.schema ELSE NeverSchema],
        [name |-> "headers", schema |-> GroupSchema(ParameterGroup(operation, "header"))],
        [name |-> "path", schema |-> GroupSchema(ParameterGroup(operation, "path"))],
        [name |-> "query", schema |-> GroupSchema(ParameterGroup(operation, "query"))]>>,
     required |-> RequiredProperties(operation)]

\* operationResponsesMap of ir/operation: the schema of the response of the
\* operation, when it has one
HasResponse(operation) == Has(operation, "responses")

ResponseSchema(operation) == operation.responses

\* file.identifier({ create: true }) and schemaToZodSchema({ $ref, identifier })
WithMade(ref, schema, cfg, root, st, made) ==
    SchemaToZodSchema([ref |-> ref, identifier |-> made.identifier, schema |-> schema],
                      cfg, root, [st EXCEPT !.names = made.names]).st

EmitWithIdentifier(ref, schema, cfg, root, st) ==
    WithMade(ref, schema, cfg, root, st, FileIdentifier(st.names, ref, TRUE))

\* the response of the operation, lines 1077-1103
ResponseToZodSchema(operation, cfg, root, st) ==
    IF cfg.responses /\ HasResponse(operation) /\ ~st.overflow
    THEN EmitWithIdentifier(ZodResponseRef(operation.id),
                            ResponseSchema(operation), cfg, root, st)
    ELSE st

\* operationToZodSchema: the request, lines 1025-1075, then the response
OperationToZodSchema(operation, cfg, root, st) ==
    ResponseToZodSchema(operation, cfg, root,
        IF cfg.requests
        THEN EmitWithIdentifier(ZodDataRef(operation.id),
                                RequestSchema(operation), cfg, root, st)
        ELSE st)

(***************************************************************************)
(* The zod plugin: the IRs of the model and the event handlers.            *)
(***************************************************************************)
SchemaNames == {"A", "B", "C"}

\* the parameter has the name of a schema: the two meet in the file's names
ParameterNames == {"A"}

RequestBodyNames == {"R"}

RefTo(name) == [ref |-> SchemaRef(name)]

StringSchema == [type |-> "string"]

\* an object with one required property that refers to a schema
ObjectOf(name) ==
    [type |-> "object", properties |-> <<[name |-> "x", schema |-> RefTo(name)]>>,
     required |-> <<"x">>]

\* an object with two properties that refer to schemas, the second optional
ObjectOfTwo(first, second) ==
    [type |-> "object",
     properties |-> <<[name |-> "x", schema |-> RefTo(first)],
                      [name |-> "y", schema |-> RefTo(second)]>>,
     required |-> <<"x">>]

UnionOf(name) == [items |-> <<RefTo(name), StringSchema>>, logicalOperator |-> "or"]

ArrayOf(name) == [type |-> "array", items |-> <<RefTo(name)>>]

\* the schemas each component of the model may be: between them the
\* references are acyclic, to themselves, mutual, or around all three
ComponentSchemas ==
    [A : {ObjectOf("A"), ObjectOf("B"), ObjectOfTwo("B", "C"), UnionOf("B"), RefTo("B")},
     B : {StringSchema, ObjectOf("A"), ObjectOf("C"), ArrayOf("A"), RefTo("C")},
     C : {StringSchema, ObjectOf("A"), ObjectOfTwo("B", "C")}]

\* the operations of the model
Operations ==
    {[id |-> "addPet",
      body |-> [required |-> TRUE, schema |-> RefTo("B")],
      parameters |-> [query |-> <<[name |-> "q", required |-> TRUE,
                                   schema |-> StringSchema]>>],
      responses |-> ObjectOf("C")]}

\* plugin.config of the zod plugin
ZodConfigs == {[requests |-> TRUE, responses |-> TRUE, metadata |-> FALSE]}

NoRun == [state |-> [circularReferenceTracker |-> {}, hasCircularReference |-> FALSE],
          trace |-> <<>>, maxDepth |-> 0, overflow |-> FALSE, ref |-> <<>>]

ZodIdle ==
    /\ ir = [components |-> [schemas |-> EmptyObject, parameters |-> EmptyObject,
                             requestBodies |-> EmptyObject],
             operation |-> [id |-> ""]]
    /\ zodConfig = [requests |-> FALSE, responses |-> FALSE, metadata |-> FALSE]
    /\ zodFile = [names |-> EmptyObject, nodes |-> <<>>]
    /\ last = NoRun

\* the handler of the plugin has run: the file exists and is empty
ZodInit ==
    /\ \E schemas \in ComponentSchemas, parameter \in {"A"},
          body \in {"B"}, operation \in Operations :
          ir = [components |->
                   [schemas |-> schemas,
                    parameters |-> [A |-> [name |-> "p", location |-> "query",
                                           schema |-> RefTo(parameter)]],
                    requestBodies |-> [R |-> [schema |-> ArrayOf(body)]]],
                operation |-> operation]
    /\ zodConfig \in ZodConfigs
    /\ zodFile = [names |-> EmptyObject, nodes |-> <<>>]
    /\ last = NoRun

\* the operations a request schema is made of: with or without a body, and
\* with or without each group of parameters, required or not
HeaderParameter(required) == [name |-> "version", required |-> required,
                              schema |-> StringSchema]

PathParameter(required) == [name |-> "id", required |-> required, schema |-> StringSchema]

QueryParameter(name, required) == [name |-> name, required |-> required,
                                   schema |-> StringSchema]

RequestOperations ==
    {Spread(Spread([id |-> "getPet"], Spread(body, responses)),
            IF Spread(header, Spread(path, query)) = EmptyObject THEN EmptyObject
            ELSE [parameters |-> Spread(header, Spread(path, query))]) :
        body \in {EmptyObject,
                  [body |-> [required |-> TRUE, schema |-> RefTo("A")]],
                  [body |-> [required |-> FALSE, schema |-> StringSchema]],
                  [body |-> [schema |-> StringSchema]]},
        responses \in {EmptyObject, [responses |-> StringSchema]},
        header \in {EmptyObject, [header |-> <<>>],
                    [header |-> <<HeaderParameter(TRUE)>>],
                    [header |-> <<HeaderParameter(FALSE)>>]},
        path \in {EmptyObject,
                  [path |-> <<PathParameter(TRUE)>>],
                  [path |-> <<PathParameter(FALSE)>>]},
        query \in {EmptyObject,
                   [query |-> <<QueryParameter("limit", FALSE)>>],
                   [query |-> <<QueryParameter("limit", FALSE),
                                QueryParameter("page", TRUE)>>]}}

RequestConfigs == {[requests |-> TRUE, responses |-> TRUE, metadata |-> FALSE],
                   [requests |-> FALSE, responses |-> TRUE, metadata |-> FALSE]}

\* the handler of the plugin has run, for an IR with one of these operations
OperationsInit ==
    /\ \E operation \in RequestOperations :
          ir = [components |->
                   [schemas |-> [A |-> StringSchema],
                    parameters |-> [A |-> [name |-> "p", location |-> "query",
                                           schema |-> RefTo("A")]],
                    requestBodies |-> [R |-> [schema |-> ArrayOf("A")]]],
                operation |-> operation]
    /\ zodConfig \in RequestConfigs
    /\ zodFile = [names |-> EmptyObject, nodes |-> <<>>]
    /\ last = NoRun

\* the shapes a schema may have: none, one or several of $ref, type and
\* items; the intersections of two and of three items; and a schema, alone
\* or as a property, with the fields the modifiers are made for
ObjectWith(name, schema, required) ==
    [type |-> "object", properties |-> <<[name |-> name, schema |-> schema]>>,
     required |-> required]

UnionSchema == [items |-> <<StringSchema, [type |-> "number"]>>, logicalOperator |-> "or"]

IntersectionItems ==
    {ObjectWith("x", StringSchema, <<"x">>), ObjectWith("y", StringSchema, <<"y">>),
     StringSchema, RefTo("B"), UnionSchema}

DispatchShapes ==
    {EmptyObject, [description |-> "d"],
     [ref |-> SchemaRef("B"), type |-> "number"],
     [ref |-> SchemaRef("B"), items |-> <<StringSchema, [type |-> "number"]>>],
     [type |-> "string", items |-> <<[type |-> "number"]>>],
     UnionSchema}

IntersectionShapes ==
    {[items |-> <<first, second>>, logicalOperator |-> "and"] :
        first \in IntersectionItems, second \in IntersectionItems}
    \cup {[items |-> <<ObjectWith("x", StringSchema, <<"x">>),
                       ObjectWith("y", StringSchema, <<"y">>), third>>,
           logicalOperator |-> "and"] : third \in {StringSchema, RefTo("B")}}

ModifiedSchemas ==
    {Spread(StringSchema, Spread(scope, Spread(default, description))) :
        scope \in {EmptyObject, [accessScope |-> "read"]},
        default \in {EmptyObject, [default |-> JString("x")]},
        description \in {EmptyObject, [description |-> "d"]}}

ModifierShapes ==
    ModifiedSchemas
    \cup {ObjectWith("x", schema, required) :
             schema \in ModifiedSchemas, required \in {<<>>, <<"x">>}}

ShapeConfigs == {[requests |-> TRUE, responses |-> TRUE, metadata |-> metadata] :
                    metadata \in BOOLEAN}

\* the handler of the plugin has run, for an IR whose schema A has a shape
ShapesInit ==
    /\ \E shape \in DispatchShapes \cup IntersectionShapes \cup ModifierShapes :
          ir = [components |->
                   [schemas |-> [A |-> shape, B |-> StringSchema],
                    parameters |-> [A |-> [name |-> "p", location |-> "query",
                                           schema |-> RefTo("A")]],
                    requestBodies |-> [R |-> [schema |-> ArrayOf("B")]]],
                operation |-> [id |-> "getPet", responses |-> RefTo("A")]]
    /\ zodConfig \in ShapeConfigs
    /\ zodFile = [names |-> EmptyObject, nodes |-> <<>>]
    /\ last = NoRun

\* the schemas that hold no schema but their own: enums, numbers, strings;
\* and the objects over a few properties
EnumItems ==
    {[type |-> "string", const |-> JString("red")],
     [type |-> "string", const |-> JString("green")],
     [type |-> "null", const |-> JNull],
     [type |-> "number", const |-> JNumber(1)]}

EnumSchemas ==
    {[type |-> "enum"]}
    \cup {[type |-> "enum", items |-> items] :
             items \in UNION {[1..n -> EnumItems] : n \in 0..3}}

NumberSchemas ==
    {Spread([type |-> type],
            Spread(Spread(format, const),
                   Spread(Spread(minimum, exclusiveMinimum),
                          Spread(Spread(maximum, exclusiveMaximum), default)))) :
        type \in {"integer", "number"},
        format \in {EmptyObject, [format |-> "int64"], [format |-> "int32"]},
        const \in {EmptyObject, [const |-> JNumber(5)]},
        minimum \in {EmptyObject, [minimum |-> 1]},
        exclusiveMinimum \in {EmptyObject, [exclusiveMinimum |-> 0]},
        maximum \in {EmptyObject, [maximum |-> 9]},
        exclusiveMaximum \in {EmptyObject, [exclusiveMaximum |-> 10]},
        default \in {EmptyObject, [default |-> JNumber(2)]}}

StringSchemas ==
    {Spread(Spread(StringSchema, Spread(format, const)),
            Spread(Spread(minLength, maxLength), pattern)) :
        format \in {EmptyObject, [format |-> "date-time"], [format |-> "email"],
                    [format |-> "ipv6"], [format |-> "binary"]},
        const \in {EmptyObject, [const |-> JString("c")]},
        minLength \in {EmptyObject, [minLength |-> 1], [minLength |-> 2]},
        maxLength \in {EmptyObject, [maxLength |-> 2]},
        pattern \in {EmptyObject, [pattern |-> "^a"], [pattern |-> ""]}}

PropertyLists ==
    {<<>>,
     <<[name |-> "id", schema |-> [type |-> "integer", format |-> "int64"]],
       [name |-> "name", schema |-> [type |-> "string", minLength |-> 1]]>>,
     <<[name |-> "name", schema |-> StringSchema],
       [name |-> "id", schema |-> StringSchema],
       [name |-> "tag", schema |-> [type |-> "string", default |-> JString("x")]]>>,
     <<[name |-> "name", schema |-> StringSchema],
       [name |-> "2", schema |-> StringSchema],
       [name |-> "1", schema |-> [type |-> "integer"]]>>}

ObjectSchemas ==
    {[type |-> "object", properties |-> properties] : properties \in PropertyLists}
    \cup {[type |-> "object", properties |-> properties, required |-> required] :
             properties \in PropertyLists,
             required \in {<<>>, <<"id">>, <<"name", "id">>, <<"tag", "other">>, <<"2">>}}

\* the handler of the plugin has run, for an IR whose schema A is one of these
LeavesInit ==
    /\ \E schema \in EnumSchemas \cup NumberSchemas \cup StringSchemas \cup ObjectSchemas :
          ir = [components |->
                   [schemas |-> [A |-> schema],
                    parameters |-> [A |-> [name |-> "p", location |-> "query",
                                           schema |-> RefTo("A")]],
                    requestBodies |-> [R |-> [schema |-> ArrayOf("A")]]],
                operation |-> [id |-> "getPet", responses |-> RefTo("A")]]
    /\ zodConfig \in ZodConfigs
    /\ zodFile = [names |-> EmptyObject, nodes |-> <<>>]
    /\ last = NoRun

\* what an event handler leaves: the file, and the State it worked with
Handled(ref, st) ==
    /\ zodFile' = [names |-> st.names, nodes |-> st.nodes]
    /\ last' = [state |-> st.state, trace |-> st.trace, maxDepth |-> st.maxDepth,
                overflow |-> st.overflow, ref |-> ref]
    /\ UNCHANGED <<ir, zodConfig>>
    /\ UNCHANGED notZodVars

\* plugin.subscribe('schema', ...)
SchemaEvent(name) ==
    /\ name \in DOMAIN ir.components.schemas
    /\ Handled(SchemaRef(name),
               SchemaToZodSchema([ref |-> SchemaRef(name),
                                  schema |-> ir.components.schemas[name]],
                                 zodConfig, ir, FreshState(zodFile)).st)

\* plugin.subscribe('parameter', ...)
ParameterEvent(name) ==
    /\ name \in DOMAIN ir.components.parameters
    /\ Handled(ParameterRef(name),
               SchemaToZodSchema([ref |-> ParameterRef(name),
                                  schema |-> ir.components.parameters[name].schema],
                                 zodConfig, ir, FreshState(zodFile)).st)

\* plugin.subscribe('requestBody', ...)
RequestBodyEvent(name) ==
    /\ name \in DOMAIN ir.components.requestBodies
    /\ Handled(RequestBodyRef(name),
               SchemaToZodSchema([ref |-> RequestBodyRef(name),
                                  schema |-> ir.components.requestBodies[name].schema],
                                 zodConfig, ir, FreshState(zodFile)).st)

\* plugin.subscribe('operation', ...)
OperationEvent ==
    /\ ir.operation.id # ""
    /\ Handled(ZodDataRef(ir.operation.id),
               OperationToZodSchema(ir.operation, zodConfig, ir, FreshState(zodFile)))

ZodNext ==
    \/ \E name \in SchemaNames : SchemaEvent(name)
    \/ \E name \in ParameterNames : ParameterEvent(name)
    \/ \E name \in RequestBodyNames : RequestBodyEvent(name)
    \/ OperationEvent

(***************************************************************************)
(* parseV3_1_X.  The parser goes over the components, then over the paths; *)
(* `parser` is where it stands, the map of security schemes it has built,  *)
(* and the calls of parseParameter, parseRequestBody, parseSchema,         *)
(* parseServers and parseOperation it has made, in their order.            *)
(***************************************************************************)
\* an object is gone over in the order its keys were set; the document of
\* the model says in `keys` in which order the keys of its objects were set
KeyOrders ==
    {<<"A", "B", "Body", "Key", "Limit", "Page", "Shared", "/pets", "/pets/{id}">>,
     <<"B", "A", "Body", "Key", "Page", "Limit", "Shared", "/pets/{id}", "/pets">>}

KeyOrder == spec.keys

RECURSIVE KeysIn(_, _)
KeysIn(object, order) ==
    IF order = <<>> THEN <<>>
    ELSE (IF Head(order) \in DOMAIN object THEN <<Head(order)>> ELSE <<>>)
             \o KeysIn(object, Tail(order))

\* the keys sorted, whatever the order they were set in
KeysSorted(object) ==
    KeysIn(object, <<"/pets", "/pets/{id}", "A", "B", "Body", "Key", "Limit", "Page", "Shared">>)

Keys(object) == KeysIn(object, KeyOrder)

Methods == <<"delete", "get", "head", "options", "patch", "post", "put", "trace">>

\* `#/paths${path}/${method}`
OperationRef(path, method) == <<"paths", path, method>>

SecuritySchemeRef(name) == <<"components", "securitySchemes", name>>

PathItemRef(name) == <<"components", "pathItems", name>>

\* the fields of an object among some
Pick(o, fields) == [f \in DOMAIN o \cap fields |-> o[f]]

\* an array that may be undefined
ArrayOrEmpty(o, field) == IF Has(o, field) THEN o[field] ELSE <<>>

\* '$ref' in x ? context.resolveRef(x.$ref) : x
Dereferenced(root, x) == IF Has(x, "ref") THEN ResolveRef(root, x.ref) ELSE x

(***************************************************************************)
(* createFilters and canProcessRef of shared/utils/filter: a filter either *)
(* names the $refs its pattern matches or asks for a deprecated schema; a  *)
(* $ref is processed when include is empty or one of its filters matches,  *)
(* and no filter of exclude matches.                                       *)
(***************************************************************************)
Matching(refs) == [refs |-> refs]

Deprecated == [deprecated |-> TRUE]

IsFiltered(ref, schema, filter) ==
    IF Has(filter, "refs") THEN ref \in filter.refs
    ELSE Has(schema, "deprecated") /\ schema.deprecated

SomeMatches(ref, schema, filters) ==
    \E i \in 1..Len(filters) : IsFiltered(ref, schema, filters[i])

CanProcessRef(ref, excludeFilters, includeFilters, schema) ==
    /\ includeFilters = <<>> \/ SomeMatches(ref, schema, includeFilters)
    /\ ~SomeMatches(ref, schema, excludeFilters)

\* the filter without config.input.exclude
ShouldProcessRefIncluded(ref, schema) ==
    CanProcessRef(ref, <<>>, input.include, schema)

\* shouldProcessRef, lines 35-41
ShouldProcessRef(ref, schema) ==
    CanProcessRef(ref, input.exclude, input.include, schema)

(***************************************************************************)
(* parametersArrayToObject of 3.1.x/parser/parameter and                   *)
(* mergeParametersObjects of shared/utils/parameter: the parameters of an  *)
(* array, references resolved, by location and name; two such objects      *)
(* merged, a parameter of source replacing the one of target with its      *)
(* location and name.  An object without parameters is the empty object.   *)
(***************************************************************************)
RECURSIVE ParametersInto(_, _, _)
ParametersInto(object, root, parameters) ==
    IF parameters = <<>> THEN object
    ELSE LET parameter == Dereferenced(root, Head(parameters))
             group == IF parameter.location \in DOMAIN object
                      THEN object[parameter.location] ELSE EmptyObject
         IN ParametersInto(
                Put(object, parameter.location, Put(group, parameter.name, parameter)),
                root, Tail(parameters))

ParametersArrayToObject(root, parameters) == ParametersInto(EmptyObject, root, parameters)

MergeParametersObjects(source, target) ==
    [location \in DOMAIN source \cup DOMAIN target |->
        Spread(IF location \in DOMAIN target THEN target[location] ELSE EmptyObject,
               IF location \in DOMAIN source THEN source[location] ELSE EmptyObject)]

(***************************************************************************)
(* The components, lines 44-108.                                           *)
(***************************************************************************)
Components(kind) ==
    IF Has(spec, "components") /\ Has(spec.components, kind)
    THEN spec.components[kind] ELSE EmptyObject

\* the call for a component the filter lets through, or none
RECURSIVE ComponentCalls(_, _, _, _)
ComponentCalls(fn, kind, names, done) ==
    IF names = <<>> THEN done
    ELSE LET ref == <<"components", kind, Head(names)>>
             component == Dereferenced(spec, Components(kind)[Head(names)])
         IN ComponentCalls(fn, kind, Tail(names),
                IF ShouldProcessRef(ref, component)
                THEN Append(done, [fn |-> fn, ref |-> ref, component |-> component])
                ELSE done)

ParserStart == [pc |-> "securitySchemes", securitySchemesMap |-> EmptyObject,
                calls |-> <<>>, path |-> 1]

\* lines 45-53
ParseSecuritySchemes ==
    /\ parser.pc = "securitySchemes"
    /\ parser' = [parser EXCEPT
           !.pc = "parameters",
           !.securitySchemesMap =
               [name \in DOMAIN Components("securitySchemes") |->
                   Dereferenced(spec, Components("securitySchemes")[name])]]
    /\ UNCHANGED <<spec, input>>
    /\ UNCHANGED notParserVars

\* lines 55-72
ParseParameters ==
    /\ parser.pc = "parameters"
    /\ parser' = [parser EXCEPT
           !.pc = "requestBodies",
           !.calls = ComponentCalls("parseParameter", "parameters",
                                    Keys(Components("parameters")), @)]
    /\ UNCHANGED <<spec, input>>
    /\ UNCHANGED notParserVars

\* lines 74-92
ParseRequestBodies ==
    /\ parser.pc = "requestBodies"
    /\ parser' = [parser EXCEPT
           !.pc = "schemas",
           !.calls = ComponentCalls("parseRequestBody", "requestBodies",
                                    Keys(Components("requestBodies")), @)]
    /\ UNCHANGED <<spec, input>>
    /\ UNCHANGED notParserVars

\* lines 94-107
ParseSchemas ==
    /\ parser.pc = "schemas"
    /\ parser' = [parser EXCEPT
           !.pc = "servers",
           !.calls = ComponentCalls("parseSchema", "schemas",
                                    Keys(Components("schemas")), @)]
    /\ UNCHANGED <<spec, input>>
    /\ UNCHANGED notParserVars

\* line 110
ParseServers ==
    /\ parser.pc = "servers"
    /\ parser' = [parser EXCEPT
           !.pc = IF Keys(spec.paths) = <<>> THEN "done" ELSE "paths",
           !.calls = Append(@, [fn |-> "parseServers"])]
    /\ UNCHANGED <<spec, input>>
    /\ UNCHANGED notParserVars

(***************************************************************************)
(* The paths, lines 112-303.                                               *)
(***************************************************************************)
\* the fields of the referenced path item over the inline ones
FinalPathItemReferencedWins(pathItem) ==
    IF Has(pathItem, "ref") THEN Spread(pathItem, ResolveRef(spec, pathItem.ref))
    ELSE pathItem

\* lines 115-120
FinalPathItem(pathItem) ==
    IF Has(pathItem, "ref") THEN Spread(ResolveRef(spec, pathItem.ref), pathItem)
    ELSE pathItem

\* operationArgs.operation, lines 125-134; a field that is undefined is a
\* field the record does not have
OperationArgsOperation(finalPathItem) ==
    Spread(Spread(Pick(finalPathItem, {"description", "servers", "summary"}),
                  Pick(spec, {"security"})),
           [parameters |->
               ParametersArrayToObject(spec, ArrayOrEmpty(finalPathItem, "parameters"))])

\* with the parameters of the path item as source
MergedParametersOfPathItem(finalPathItem, method) ==
    MergeParametersObjects(
        OperationArgsOperation(finalPathItem).parameters,
        ParametersArrayToObject(spec, ArrayOrEmpty(finalPathItem[method], "parameters")))

\* lines 168-174, the same for each method
MergedParameters(finalPathItem, method) ==
    MergeParametersObjects(
        ParametersArrayToObject(spec, ArrayOrEmpty(finalPathItem[method], "parameters")),
        OperationArgsOperation(finalPathItem).parameters)

\* the operation of the call of parseOperation, lines 165-175
MethodOperation(finalPathItem, method) ==
    Spread(Spread(OperationArgsOperation(finalPathItem), finalPathItem[method]),
           [parameters |-> MergedParameters(finalPathItem, method)])

\* the eight blocks of lines 140-302, one after the other
RECURSIVE OperationCalls(_, _, _, _)
OperationCalls(path, finalPathItem, methods, done) ==
    IF methods = <<>> THEN done
    ELSE OperationCalls(path, finalPathItem, Tail(methods),
             IF /\ Has(finalPathItem, Head(methods))
                /\ ShouldProcessRef(OperationRef(path, Head(methods)),
                                    finalPathItem[Head(methods)])
             THEN Append(done, [fn |-> "parseOperation",
                                ref |-> OperationRef(path, Head(methods)),
                                method |-> Head(methods), path |-> path,
                                operation |-> MethodOperation(finalPathItem, Head(methods)),
                                securitySchemesMap |-> parser.securitySchemesMap])
             ELSE done)

\* one turn of the loop over context.spec.paths
ParsePath ==
    /\ parser.pc = "paths"
    /\ LET path == Keys(spec.paths)[parser.path]
       IN parser' = [parser EXCEPT
              !.pc = IF parser.path = Len(Keys(spec.paths)) THEN "done" ELSE "paths",
              !.path = @ + 1,
              !.calls = OperationCalls(path, FinalPathItem(spec.paths[path]), Methods, @)]
    /\ UNCHANGED <<spec, input>>
    /\ UNCHANGED notParserVars

ParserNext ==
    \/ ParseSecuritySchemes
    \/ ParseParameters
    \/ ParseRequestBodies
    \/ ParseSchemas
    \/ ParseServers
    \/ ParsePath

(***************************************************************************)
(* The OpenAPI documents and the filters of the model.                     *)
(***************************************************************************)
Version(required) == [name |-> "version", location |-> "header", required |-> required]

Limit(required) == [name |-> "limit", location |-> "query", required |-> required]

Id == [name |-> "id", location |-> "path", required |-> TRUE]

ModelComponents ==
    [parameters |-> [Limit |-> Limit(FALSE), Page |-> [ref |-> ParameterRef("Limit")]],
     requestBodies |-> [Body |-> [required |-> TRUE]],
     schemas |-> [A |-> [type |-> "string"],
                  B |-> [type |-> "string", deprecated |-> TRUE]],
     securitySchemes |-> [Key |-> [type |-> "apiKey"]],
     pathItems |-> [Shared |-> [summary |-> "shared",
                                parameters |-> <<Version(TRUE)>>,
                                get |-> [operationId |-> "sharedGet"]]]]

\* the path items of /pets: with or without a summary, parameters, a $ref,
\* get and post
PetsPathItems ==
    {Spread(Spread(summary, Spread(parameters, reference)), Spread(get, post)) :
        summary \in {EmptyObject, [summary |-> "pets"]},
        parameters \in {EmptyObject,
                        [parameters |-> <<Version(TRUE)>>],
                        [parameters |-> <<Version(TRUE), [ref |-> ParameterRef("Limit")]>>]},
        reference \in {EmptyObject, [ref |-> PathItemRef("Shared")]},
        get \in {EmptyObject,
                 [get |-> [operationId |-> "getPets"]],
                 [get |-> [operationId |-> "getPets", parameters |-> <<Version(FALSE)>>]],
                 [get |-> [operationId |-> "getPets", deprecated |-> TRUE,
                           parameters |-> <<Limit(TRUE)>>]]},
        post \in {EmptyObject,
                  [post |-> [operationId |-> "addPet", summary |-> "add",
                             parameters |-> <<Version(FALSE)>>]]}}

PetPathItem == [parameters |-> <<Id>>, delete |-> [operationId |-> "deletePet"]]

Inputs ==
    [include : {<<>>,
                <<Matching({SchemaRef("A"), ParameterRef("Page"),
                            OperationRef("/pets", "get")})>>,
                <<Matching({RequestBodyRef("Body")}), Deprecated>>},
     exclude : {<<>>,
                <<Matching({OperationRef("/pets", "post"), ParameterRef("Page")})>>,
                <<Deprecated>>}]

ParserIdle ==
    /\ spec = [paths |-> EmptyObject]
    /\ input = [include |-> <<>>, exclude |-> <<>>]
    /\ parser = [ParserStart EXCEPT !.pc = "done"]

ParserInit ==
    /\ \E pets \in PetsPathItems, keys \in KeyOrders :
           spec = [components |-> ModelComponents, keys |-> keys,
                   paths |-> [p \in {"/pets", "/pets/{id}"} |->
                                 IF p = "/pets" THEN pets ELSE PetPathItem]]
    /\ input \in Inputs
    /\ parser = ParserStart

(***************************************************************************)
(* IRContext.files.  createFile makes a TypeScriptFile and puts it in the  *)
(* map under its id; file looks an id up.  A TypeScriptFile is an object:  *)
(* `object` tells one from another, it is the number of the call of        *)
(* createFile that made it.  What a plugin adds to a file and imports into *)
(* it is kept by the file.                                                 *)
(***************************************************************************)
MaxCreate == 3

MaxAdd == 2

\* config.output.path
OutputPath == <<"out">>

FileIds == {"zod", "types"}

\* file.path, its parts between '/'
FilePaths == {<<"zod">>, <<"client", "zod">>, <<"types">>}

ContextFiles == [id : FileIds, path : FilePaths, exportFromIndex : BOOLEAN]

\* outputParts.slice(0, outputParts.length - 1)
Front(outputParts) == SubSeq(outputParts, 1, Len(outputParts) - 1)

\* new TypeScriptFile({...}), lines 166-172; identifierCase is not set
TypeScriptFile(file, object) ==
    [object |-> object,
     dir |-> OutputPath \o Front(file.path),
     exportFromIndex |-> file.exportFromIndex,
     id |-> file.id,
     name |-> file.path[Len(file.path)] \o ".ts",
     nodes |-> <<>>,
     imports |-> {}]

\* this.files[file.id] = createdFile, line 173
SetFile(map, file, createdFile) == Put(map, file.id, createdFile)

FilesInit ==
    /\ files = EmptyObject
    /\ created = <<>>

FilesIdle == FilesInit

\* IRContext.createFile, lines 159-175
CreateFile(file) ==
    /\ Len(created) < MaxCreate
    /\ files' = SetFile(files, file, TypeScriptFile(file, Len(created) + 1))
    /\ created' = Append(created, file)
    /\ UNCHANGED notFileVars

\* IRContext.file, lines 194-196: undefined is NoFile
NoFile == [object |-> 0]

File(id) == IF id \in DOMAIN files THEN files[id] ELSE NoFile

\* a plugin adds a declaration to the file it looked up: file.add(node)
AddNode(id, node) ==
    /\ File(id) # NoFile
    /\ Len(File(id).nodes) < MaxAdd
    /\ files' = [files EXCEPT ![id].nodes = Append(@, node)]
    /\ UNCHANGED created
    /\ UNCHANGED notFileVars

\* a plugin imports a name into the file it looked up: file.import({...})
AddImport(id, name) ==
    /\ File(id) # NoFile
    /\ files' = [files EXCEPT ![id].imports = @ \cup {name}]
    /\ UNCHANGED created
    /\ UNCHANGED notFileVars

FilesNext ==
    \/ \E file \in ContextFiles : CreateFile(file)
    \/ \E id \in FileIds, node \in {"zA", "zB"} : AddNode(id, node)
    \/ \E id \in FileIds, name \in {"z"} : AddImport(id, name)

(***************************************************************************)
(* transformOpenApiSpec of openApi/shared/transforms.  The two transforms  *)
(* are handed context.spec and rewrite what they are handed in place: the  *)
(* enum transform moves the enum of a property to a component of its own   *)
(* and leaves a $ref, the read/write transform adds the Readable and the   *)
(* Writable variant of a schema with read-only or write-only properties    *)
(* and points the request body and the response at them.                   *)
(***************************************************************************)
PropertiesOf(schema) == IF Has(schema, "properties") THEN schema.properties ELSE EmptyObject

\* the properties of the component schemas that declare an enum
EnumSites(schemas) ==
    {site \in (DOMAIN schemas) \X {"id", "status", "secret"} :
        /\ site[2] \in DOMAIN PropertiesOf(schemas[site[1]])
        /\ Has(schemas[site[1]].properties[site[2]], "enum")}

\* the name of the component made for the enum of a property
LiftedName(site) == site[1] \o "_" \o site[2]

WithProperties(schema, properties) == Spread(schema, [properties |-> properties])

EnumsTransform(enums, document) ==
    IF enums.mode # "lift" THEN document
    ELSE LET schemas == document.components.schemas
             sites == EnumSites(schemas)
         IN Spread(document, [components |-> Spread(document.components, [schemas |->
                [name \in DOMAIN schemas \cup {LiftedName(site) : site \in sites} |->
                    IF name \in DOMAIN schemas
                    THEN IF Has(schemas[name], "properties")
                         THEN WithProperties(schemas[name],
                                  [property \in DOMAIN schemas[name].properties |->
                                      IF <<name, property>> \in sites
                                      THEN [ref |-> SchemaRef(LiftedName(<<name, property>>))]
                                      ELSE schemas[name].properties[property]])
                         ELSE schemas[name]
                    ELSE LET site == CHOOSE x \in sites : LiftedName(x) = name
                         IN schemas[site[1]].properties[site[2]]]])])

IsScoped(schema, scope) == Has(schema, scope) /\ schema[scope]

\* the schemas with a property that is read-only or write-only
SplitNames(schemas) ==
    {name \in DOMAIN schemas :
        \E property \in DOMAIN PropertiesOf(schemas[name]) :
            \/ IsScoped(schemas[name].properties[property], "readOnly")
            \/ IsScoped(schemas[name].properties[property], "writeOnly")}

\* the schema without its properties of a scope
Variant(schema, scope) ==
    WithProperties(schema,
        [property \in {x \in DOMAIN schema.properties :
                          ~IsScoped(schema.properties[x], scope)} |->
            schema.properties[property]])

\* the $ref of a request body or a response, to the variant when there is one
Redirected(schemas, x, suffix) ==
    IF Has(x, "ref") /\ x.ref[3] \in SplitNames(schemas)
    THEN [ref |-> SchemaRef(x.ref[3] \o suffix)] ELSE x

ReadWriteTransform(document) ==
    LET schemas == document.components.schemas
        split == SplitNames(schemas)
        added == [name \in {n \o "Readable" : n \in split}
                            \cup {n \o "Writable" : n \in split} |->
                     IF \E n \in split : name = n \o "Readable"
                     THEN Variant(schemas[CHOOSE n \in split : name = n \o "Readable"],
                                  "writeOnly")
                     ELSE Variant(schemas[CHOOSE n \in split : name = n \o "Writable"],
                                  "readOnly")]
    IN Spread(document,
           [components |-> Spread(document.components, [schemas |-> Spread(schemas, added)]),
            paths |-> [path \in DOMAIN document.paths |->
                [method \in DOMAIN document.paths[path] |->
                    LET operation == document.paths[path][method]
                    IN Spread(operation,
                           Spread(IF Has(operation, "requestBody")
                                  THEN [requestBody |->
                                           Redirected(schemas, operation.requestBody, "Writable")]
                                  ELSE EmptyObject,
                                  IF Has(operation, "response")
                                  THEN [response |->
                                           Redirected(schemas, operation.response, "Readable")]
                                  ELSE EmptyObject))]]])

\* config.parser.transforms
TransformsConfigs ==
    [enums : [enabled : BOOLEAN, mode : {"inline", "lift"}],
     readWrite : [enabled : BOOLEAN]]

\* the documents the transforms of the model are given
TransformDocuments ==
    {[components |-> [schemas |-> [Pet |-> [type |-> "object", properties |-> properties]]],
      paths |-> [p \in {"/pets"} |->
                    [post |-> [requestBody |-> body, response |-> [ref |-> SchemaRef("Pet")]]]]] :
        properties \in
            {[id |-> [type |-> "string"]],
             [id |-> [type |-> "string"], status |-> [type |-> "string", enum |-> <<"a", "b">>]],
             [id |-> [type |-> "string", readOnly |-> TRUE],
              secret |-> [type |-> "string", writeOnly |-> TRUE]],
             [id |-> [type |-> "string", readOnly |-> TRUE],
              status |-> [type |-> "string", enum |-> <<"a", "b">>]]},
        body \in {[ref |-> SchemaRef("Pet")], [type |-> "string"]}}

TransformsIdle == transform = [config |-> [enums |-> [enabled |-> FALSE, mode |-> "inline"],
                                           readWrite |-> [enabled |-> FALSE]],
                               pc |-> "done", log |-> <<>>]

\* the context as its constructor leaves it (this.ir = {}), the document loaded
TransformsInit ==
    /\ spec \in TransformDocuments
    /\ input = [include |-> <<>>, exclude |-> <<>>]
    /\ parser = [ParserStart EXCEPT !.pc = "done"]
    /\ \E c \in TransformsConfigs : transform = [config |-> c, pc |-> "loaded", log |-> <<>>]

\* context.spec after the transforms that are enabled, lines 8-21
Transformed(transforms, document) ==
    LET afterEnums == IF transforms.enums.enabled
                      THEN EnumsTransform(transforms.enums, document) ELSE document
    IN IF transforms.readWrite.enabled THEN ReadWriteTransform(afterEnums) ELSE afterEnums

\* the transforms that ran, between the start and the end of the timed event
TransformLog(transforms) ==
    <<"transform-openapi-spec">>
    \o (IF transforms.enums.enabled THEN <<"enumsTransform">> ELSE <<>>)
    \o (IF transforms.readWrite.enabled THEN <<"readWriteTransform">> ELSE <<>>)
    \o <<"timeEnd">>

\* transformOpenApiSpec({ context }), lines 5-23
TransformOpenApiSpec ==
    /\ transform.pc = "loaded"
    /\ spec' = Transformed(transform.config, spec)
    /\ transform' = [transform EXCEPT !.pc = "transformed",
                                      !.log = TransformLog(transform.config)]
    /\ UNCHANGED <<input, parser>>
    /\ UNCHANGED <<busVars, plugVars, zodVars, fileVars, promise>>

TransformsNext == TransformOpenApiSpec

(***************************************************************************)
(* CancelablePromise of the generated client (the template core/           *)
(* CancelablePromise): its three flags, its cancel handlers, the promise   *)
(* it wraps, and what was called on it.  resolve, reject and onCancel are  *)
(* what the constructor hands to the executor; cancel is the method.  A    *)
(* cancel handler returns or throws.                                       *)
(***************************************************************************)
\* the calls the model makes on one promise
MaxCalls == 5

HandlerKinds == {"returns", "throws"}

CancelError == [name |-> "CancelError", message |-> "Request aborted"]

\* the constructor: the flags false, no handler, the promise pending
NewPromise ==
    [isResolved |-> FALSE, isRejected |-> FALSE, isCancelled |-> FALSE,
     cancelHandlers |-> <<>>,
     state |-> "pending", result |-> [name |-> "", message |-> ""],
     invoked |-> <<>>, warned |-> FALSE, called |-> <<>>]

PromiseIdle == promise = NewPromise

PromiseInit == promise = NewPromise

\* `if (this._isResolved || this._isRejected || this._isCancelled) return`
IsSettled(p) == p.isResolved \/ p.isRejected \/ p.isCancelled

\* resolve and reject of the wrapped promise: the first call settles it
Settle(p, state, result) ==
    IF p.state = "pending" THEN [p EXCEPT !.state = state, !.result = result] ELSE p

Called(p, method) == [p EXCEPT !.called = Append(@, method)]

PromiseUnchanged == UNCHANGED <<busVars, plugVars, zodVars, parserVars, fileVars, transform>>

\* onResolve(value)
OnResolve ==
    /\ Len(promise.called) < MaxCalls
    /\ promise' = LET p == Called(promise, "resolve")
                  IN IF IsSettled(p) THEN p
                     ELSE Settle([p EXCEPT !.isResolved = TRUE], "fulfilled",
                                 [name |-> "value", message |-> ""])
    /\ PromiseUnchanged

\* onReject(reason)
OnReject ==
    /\ Len(promise.called) < MaxCalls
    /\ promise' = LET p == Called(promise, "reject")
                  IN IF IsSettled(p) THEN p
                     ELSE Settle([p EXCEPT !.isRejected = TRUE], "rejected",
                                 [name |-> "Error", message |-> "reason"])
    /\ PromiseUnchanged

\* onCancel(cancelHandler)
OnCancel(cancelHandler) ==
    /\ Len(promise.called) < MaxCalls
    /\ promise' = LET p == Called(promise, "onCancel")
                  IN IF IsSettled(p) THEN p
                     ELSE [p EXCEPT !.cancelHandlers = Append(@, cancelHandler)]
    /\ PromiseUnchanged

\* `for (const cancelHandler of this.cancelHandlers) { cancelHandler(); }`
\* inside try: the handlers from the i-th on, until one throws
RECURSIVE RunCancelHandlers(_, _)
RunCancelHandlers(p, i) ==
    IF i > Len(p.cancelHandlers) THEN [p |-> p, threw |-> FALSE]
    ELSE LET invoked == [p EXCEPT !.invoked = Append(@, i)]
         IN IF p.cancelHandlers[i] = "throws" THEN [p |-> invoked, threw |-> TRUE]
            ELSE RunCancelHandlers(invoked, i + 1)

\* the body of cancel() after its guard
Cancelled(p) ==
    LET ran == RunCancelHandlers([p EXCEPT !.isCancelled = TRUE], 1)
    IN IF ran.threw THEN [ran.p EXCEPT !.warned = TRUE]
       ELSE Settle([ran.p EXCEPT !.cancelHandlers = <<>>], "rejected", CancelError)

\* cancel() that returns early only when the promise is cancelled
CancelUnlessCancelled ==
    /\ Len(promise.called) < MaxCalls
    /\ promise' = LET p == Called(promise, "cancel")
                  IN IF p.isCancelled THEN p ELSE Cancelled(p)
    /\ PromiseUnchanged

\* cancel()
Cancel ==
    /\ Len(promise.called) < MaxCalls
    /\ promise' = LET p == Called(promise, "cancel")
                  IN IF IsSettled(p) THEN p ELSE Cancelled(p)
    /\ PromiseUnchanged

PromiseNext ==
    \/ OnResolve
    \/ OnReject
    \/ \E cancelHandler \in HandlerKinds : OnCancel(cancelHandler)
    \/ Cancel

(***************************************************************************)
(* The specifications.                                                     *)
(***************************************************************************)
BusIdle == BusInit

InitBus == BusInit /\ PlugIdle /\ ZodIdle /\ ParserIdle /\ FilesIdle /\ TransformsIdle /\ PromiseIdle

SpecBus == InitBus /\ [][BusNext]_vars

InitPlugins == PlugInit /\ BusIdle /\ ZodIdle /\ ParserIdle /\ FilesIdle /\ TransformsIdle /\ PromiseIdle

SpecPlugins == InitPlugins /\ [][PlugNext]_vars

InitZod == ZodInit /\ BusIdle /\ PlugIdle /\ ParserIdle /\ FilesIdle /\ TransformsIdle /\ PromiseIdle

SpecZod == InitZod /\ [][ZodNext]_vars

InitParser == ParserInit /\ BusIdle /\ PlugIdle /\ ZodIdle /\ FilesIdle /\ TransformsIdle /\ PromiseIdle

SpecParser == InitParser /\ [][ParserNext]_vars

InitOperations == OperationsInit /\ BusIdle /\ PlugIdle /\ ParserIdle /\ FilesIdle /\ TransformsIdle /\ PromiseIdle

SpecOperations == InitOperations /\ [][ZodNext]_vars

InitShapes == ShapesInit /\ BusIdle /\ PlugIdle /\ ParserIdle /\ FilesIdle /\ TransformsIdle /\ PromiseIdle

SpecShapes == InitShapes /\ [][ZodNext]_vars

InitLeaves == LeavesInit /\ BusIdle /\ PlugIdle /\ ParserIdle /\ FilesIdle /\ TransformsIdle /\ PromiseIdle

SpecLeaves == InitLeaves /\ [][ZodNext]_vars

InitFiles == FilesInit /\ BusIdle /\ PlugIdle /\ ZodIdle /\ ParserIdle /\ TransformsIdle /\ PromiseIdle

SpecFiles == InitFiles /\ [][FilesNext]_vars

InitTransforms == TransformsInit /\ BusIdle /\ PlugIdle /\ ZodIdle /\ FilesIdle /\ PromiseIdle

SpecTransforms == InitTransforms /\ [][TransformsNext]_vars

InitPromise ==
    /\ PromiseInit /\ BusIdle /\ PlugIdle /\ ZodIdle /\ ParserIdle /\ FilesIdle
    /\ TransformsIdle

SpecPromise == InitPromise /\ [][PromiseNext]_vars

(***************************************************************************)
(* C1  For one broadcast(E, args): the listeners called are those of E, in *)
(* the order of their subscription (subscribe only ever appends to the     *)
(* array of its event), each with args; a listener is called only once the *)
(* call before it has settled; and broadcast resolves only when every      *)
(* listener of E has been called and has settled.                          *)
(***************************************************************************)
CallsInOrder ==
    LET ls == EventListeners(bc.event) IN
    /\ bc.i <= Len(ls)
    /\ Len(calls) \in {2 * bc.i - 1, 2 * bc.i}
    /\ \A k \in 1..bc.i : calls[2 * k - 1] = CallEntry(ls[k], bc.args)
    /\ \A k \in 1..Len(calls) : (k % 2 = 0) => calls[k].op = "settled"
    /\ (bc.pc = "awaiting") <=> (Len(calls) = 2 * bc.i - 1)
    /\ bc.pc = "resolved" => \A k \in 1..bc.i : calls[2 * k].how = "fulfilled"

SubscribeAppends ==
    \A e \in DOMAIN listeners :
        /\ e \in DOMAIN listeners'
        /\ IsPrefix(listeners[e], listeners'[e])

ResolvesAtEnd ==
    (bc'.pc = "resolved" /\ bc' # bc) =>
        bc'.i = IF bc'.event \in DOMAIN listeners' THEN Len(listeners'[bc'.event]) ELSE 0

C1_SequentialDelivery ==
    /\ []CallsInOrder
    /\ [][SubscribeAppends /\ ResolvesAtEnd]_vars

C1_Witness ==
    /\ bc.pc = "resolved"
    /\ bc.i = 2
    /\ \E e \in DOMAIN listeners : e # bc.event

(***************************************************************************)
(* C2  When a listener of E throws or rejects, broadcast rejects with a    *)
(* BroadcastError carrying E, the listener's pluginName, args and the      *)
(* cause (a value that is no Error wrapped in one), and calls no listener  *)
(* after it.                                                               *)
(***************************************************************************)
C2_BroadcastError ==
    LET failed == Len(calls) > 0 /\ calls[Len(calls)].how \in {"threw", "rejected"}
        cause == calls[Len(calls)].value
    IN /\ failed <=> bc.pc = "rejected"
       /\ failed =>
            /\ bc.error.name = "BroadcastError"
            /\ bc.error.event = bc.event
            /\ bc.error.args = bc.args
            /\ bc.error.pluginName = EventListeners(bc.event)[bc.i].pluginName
            /\ bc.error.pluginName = calls[Len(calls) - 1].pluginName
            /\ bc.error.error.t = "Error"
            /\ cause.t = "Error" => bc.error.error = cause
            /\ cause.t = "string" => bc.error.error.message = cause.v
            /\ cause.t = "number" => bc.error.error.message = "7"
            /\ Len(calls) = 2 * bc.i

C2_Witness ==
    /\ bc.pc = "rejected"
    /\ bc.i = 1
    /\ Len(EventListeners(bc.event)) >= 2
    /\ calls[2].value.t = "number"

(***************************************************************************)
(* C3  registerPlugins registers the plugins one at a time in the order of *)
(* pluginOrder: when the instance of P is yielded, P and the names before  *)
(* it are registered and no name after it is; so, if every dependency of a *)
(* plugin precedes it in pluginOrder, every dependency of P is registered. *)
(***************************************************************************)
IndexIn(order, n) == CHOOSE i \in 1..Len(order) : order[i] = n

OrderInvariant ==
    LET order == config.pluginOrder IN
    \A i \in 1..Len(order) :
        /\ order[i] \in DOMAIN config.plugins
        /\ \A d \in DependenciesOrEmpty(config.plugins[order[i]]) :
              \E j \in 1..(i - 1) : order[j] = d

C3_RegistrationOrder ==
    (gen.pc = "yielded" /\ OrderInvariant) =>
        LET order == config.pluginOrder IN
        /\ gen.value.name = order[gen.i]
        /\ DOMAIN plugins = {order[j] : j \in 1..gen.i}
        /\ \A d \in gen.value.dependencies : d \in DOMAIN plugins
        /\ \A j \in (gen.i + 1)..Len(order) : order[j] \notin DOMAIN plugins

C3_Witness ==
    /\ gen.pc = "yielded"
    /\ OrderInvariant
    /\ gen.i = 2
    /\ Len(config.pluginOrder) = 3
    /\ gen.value.dependencies # {}

(***************************************************************************)
(* Reading the zod file: the references of a declaration to names, the     *)
(* references of a schema of the IR to schemas.                            *)
(***************************************************************************)
\* the identifiers of an expression; lazy is whether it is inside an arrow
\* function, which z.lazy alone makes
RECURSIVE References(_, _)
References(e, lazy) ==
    CASE e.k = "identifier" -> {[name |-> e.text, lazy |-> lazy]}
      [] e.k = "propertyAccess" -> References(e.expression, lazy)
      [] e.k = "call" ->
           References(e.functionName, lazy)
           \cup UNION {References(e.parameters[i], lazy) : i \in 1..Len(e.parameters)}
      [] e.k = "arrow" -> References(e.returns, TRUE)
      [] e.k = "objectLiteral" ->
           UNION {References(e.properties[i].initializer, lazy) :
                     i \in 1..Len(e.properties)}
      [] e.k = "arrayLiteral" ->
           UNION {References(e.elements[i], lazy) : i \in 1..Len(e.elements)}
      [] OTHER -> {}

\* the names the file has given
FileNames == {zodFile.names[r] : r \in DOMAIN zodFile.names}

\* the references of the i-th declaration to names of the file
NodeReferences(i) ==
    {x \in References(zodFile.nodes[i].expression, FALSE) : x.name \in FileNames}

Declared(ref) ==
    /\ ref \in DOMAIN zodFile.names
    /\ \E i \in 1..Len(zodFile.nodes) : zodFile.nodes[i].name = zodFile.names[ref]

\* the declaration of a declared $ref
NodeOf(ref) ==
    zodFile.nodes[CHOOSE i \in 1..Len(zodFile.nodes) :
                      zodFile.nodes[i].name = zodFile.names[ref]]

\* the $refs a schema of the IR holds
RECURSIVE SchemaRefs(_)
SchemaRefs(schema) ==
    IF Has(schema, "ref") THEN {schema.ref}
    ELSE (IF Has(schema, "items")
          THEN UNION {SchemaRefs(schema.items[i]) : i \in 1..Len(schema.items)}
          ELSE {})
         \cup (IF Has(schema, "properties")
               THEN UNION {SchemaRefs(schema.properties[i].schema) :
                              i \in 1..Len(schema.properties)}
               ELSE {})

ComponentRefs == {SchemaRef(n) : n \in DOMAIN ir.components.schemas}

\* the component schemas reached from a set of them in at most n steps
RECURSIVE ReachedFrom(_, _)
ReachedFrom(refs, n) ==
    IF n = 0 THEN refs
    ELSE ReachedFrom(refs \cup UNION {SchemaRefs(ResolveRef(ir, r)) : r \in refs}, n - 1)

\* the schema reaches itself through $refs
Cyclic(ref) ==
    ref \in ReachedFrom(SchemaRefs(ResolveRef(ir, ref)), Cardinality(ComponentRefs))

(***************************************************************************)
(* C4: whatever events the plugin handles, the file holds at most one      *)
(* declaration for a $ref.  A handler only appends to the file, each       *)
(* declaration it appends is for a $ref that had no name before, and a     *)
(* $ref that had a name keeps it.                                          *)
(***************************************************************************)
OneDeclaration ==
    /\ \A i, j \in 1..Len(zodFile.nodes) :
           zodFile.nodes[i].name = zodFile.nodes[j].name => i = j
    /\ \A r, s \in DOMAIN zodFile.names :
           zodFile.names[r] = zodFile.names[s] => r = s
    /\ \A i \in 1..Len(zodFile.nodes) : zodFile.nodes[i].name \in FileNames

AppendedForNewIdentifier ==
    /\ IsPrefix(zodFile.nodes, zodFile'.nodes)
    /\ \A r \in DOMAIN zodFile.names :
           r \in DOMAIN zodFile'.names /\ zodFile'.names[r] = zodFile.names[r]
    /\ \A k \in (Len(zodFile.nodes) + 1)..Len(zodFile'.nodes) :
           \E r \in DOMAIN zodFile'.names \ DOMAIN zodFile.names :
               zodFile'.names[r] = zodFile'.nodes[k].name

C4_OneDeclarationPerRef == []OneDeclaration /\ [][AppendedForNewIdentifier]_vars

\* the schema event of A was handled when A was declared already, next to
\* the parameter A that has another name
C4_Witness ==
    /\ last.ref = SchemaRef("A")
    /\ Declared(SchemaRef("A")) /\ Declared(ParameterRef("A"))
    /\ zodFile.nodes[Len(zodFile.nodes)].name # zodFile.names[SchemaRef("A")]
    /\ zodFile.names[ParameterRef("A")] = "zA2"

(***************************************************************************)
(* C5: declaration before use.  A reference of a declaration to a name     *)
(* that is not lazy is a reference to a declaration earlier in the file;   *)
(* a reference to a name declared later, or not yet, is inside z.lazy.  So *)
(* no declaration reaches itself through references that are not lazy.     *)
(***************************************************************************)
\* the declarations reached from some along the edges in at most n steps
RECURSIVE BareReached(_, _, _)
BareReached(indices, edges, n) ==
    IF n = 0 THEN indices
    ELSE BareReached(indices \cup UNION {edges[i] : i \in indices}, edges, n - 1)

\* the index of each declared name in the file
IndexOfName ==
    [name \in {zodFile.nodes[i].name : i \in 1..Len(zodFile.nodes)} |->
        CHOOSE i \in 1..Len(zodFile.nodes) : zodFile.nodes[i].name = name]

C5_DeclarationBeforeUse ==
    LET count == Len(zodFile.nodes)
        given == FileNames
        index == IndexOfName
        refs == [i \in 1..count |->
                    {x \in References(zodFile.nodes[i].expression, FALSE) :
                        x.name \in given}]
        edges == [i \in 1..count |->
                     {index[x.name] : x \in {y \in refs[i] :
                                                 ~y.lazy /\ y.name \in DOMAIN index}}]
    IN /\ \A i \in 1..count :
              \A x \in refs[i] :
                  /\ ~x.lazy => x.name \in DOMAIN index /\ index[x.name] < i
                  /\ ~(x.name \in DOMAIN index /\ index[x.name] < i) => x.lazy
       /\ \A i \in 1..count : i \notin BareReached(edges[i], edges, count)

\* A and B refer to each other: the later declaration refers to the earlier
\* one by its name, the earlier one to the later one inside z.lazy
C5_Witness ==
    /\ Declared(SchemaRef("A")) /\ Declared(SchemaRef("B"))
    /\ \E i, j \in 1..Len(zodFile.nodes) :
           /\ i < j
           /\ [name |-> zodFile.nodes[i].name, lazy |-> FALSE] \in NodeReferences(j)
           /\ [name |-> zodFile.nodes[j].name, lazy |-> TRUE] \in NodeReferences(i)

(***************************************************************************)
(* C6: a reference to R is lazy exactly when R is in the tracker where the *)
(* reference is met, which is when a call around it is emitting R; the     *)
(* handler ends with hasCircularReference exactly when it emitted a lazy   *)
(* reference; of two schemas that refer to each other, one declaration     *)
(* has the lazy reference and the other the bare name.                     *)
(***************************************************************************)
RefEntries == {i \in 1..Len(last.trace) : last.trace[i].op = "ref"}

\* the references of the declaration of one $ref to the name of another
Uses(from, to) ==
    {x \in References(NodeOf(from).expression, FALSE) : x.name = zodFile.names[to]}

Mutual(r, s) ==
    /\ r # s
    /\ s \in SchemaRefs(ResolveRef(ir, r))
    /\ r \in SchemaRefs(ResolveRef(ir, s))

C6_LazyIffTracked ==
    /\ \A i \in RefEntries :
           /\ last.trace[i].lazy <=> last.trace[i].ref \in last.trace[i].tracker
           /\ last.trace[i].lazy <=> last.trace[i].ref \in Range(last.trace[i].active)
    /\ last.state.hasCircularReference <=> \E i \in RefEntries : last.trace[i].lazy
    /\ \A r, s \in ComponentRefs :
           Mutual(r, s) /\ Declared(r) /\ Declared(s) =>
               /\ Uses(r, s) # {} /\ Uses(s, r) # {}
               /\ \/ (\A x \in Uses(r, s) : x.lazy) /\ (\A x \in Uses(s, r) : ~x.lazy)
                  \/ (\A x \in Uses(r, s) : ~x.lazy) /\ (\A x \in Uses(s, r) : x.lazy)

\* the handler met a reference to a schema a call around it was emitting and
\* a reference to one that none was, and A and B, which refer to each other,
\* are declared
C6_Witness ==
    /\ \E i, j \in RefEntries : last.trace[i].lazy /\ ~last.trace[j].lazy
    /\ Mutual(SchemaRef("A"), SchemaRef("B"))
    /\ Declared(SchemaRef("A")) /\ Declared(SchemaRef("B"))
    /\ last.state.hasCircularReference

(***************************************************************************)
(* C7: the declaration of a schema that reaches itself through $refs has   *)
(* a type annotation, in whatever order the events came: z.AnyZodObject    *)
(* when the schema has type 'object', z.ZodTypeAny when it has not.        *)
(***************************************************************************)
AnnotationOf(schema) ==
    IF Has(schema, "type") /\ schema.type = "object" THEN "AnyZodObject" ELSE "ZodTypeAny"

C7_CyclicAnnotated ==
    \A r \in ComponentRefs :
        Declared(r) /\ Cyclic(r) => NodeOf(r).typeName = AnnotationOf(ResolveRef(ir, r))

\* a cycle through an object and a schema that is no object; the handler of
\* the parameter event met it and declared the parameter last
C7_Witness ==
    /\ \E r, s \in ComponentRefs :
           /\ Declared(r) /\ Cyclic(r) /\ NodeOf(r).typeName = "AnyZodObject"
           /\ Declared(s) /\ Cyclic(s) /\ NodeOf(s).typeName = "ZodTypeAny"
    /\ last.ref = ParameterRef("A")
    /\ last.state.hasCircularReference
    /\ zodFile.nodes[Len(zodFile.nodes)].name = zodFile.names[ParameterRef("A")]

(***************************************************************************)
(* C8: the emitter comes to an end on every IR: the calls it makes through *)
(* a $ref, one inside the other, are never more than the IR has            *)
(* components.                                                             *)
(***************************************************************************)
NumberOfComponents ==
    Cardinality(DOMAIN ir.components.schemas)
    + Cardinality(DOMAIN ir.components.parameters)
    + Cardinality(DOMAIN ir.components.requestBodies)

\* every handler calls schemaToZodSchema with a $ref of its own; the calls
\* below it are those made through a $ref
DepthThroughRefs == IF last.maxDepth = 0 THEN 0 ELSE last.maxDepth - 1

C8_Terminates ==
    /\ ~last.overflow
    /\ DepthThroughRefs <= NumberOfComponents
    /\ DepthThroughRefs <= Cardinality(ComponentRefs)

\* the handler went through the $refs of all the schemas, one inside the other
C8_Witness ==
    /\ ~last.overflow
    /\ DepthThroughRefs = Cardinality(ComponentRefs)
    /\ Cardinality(ComponentRefs) = 3

(***************************************************************************)
(* Reading the calls of the parser.                                        *)
(***************************************************************************)
OperationCallIndices == {i \in 1..Len(parser.calls) : parser.calls[i].fn = "parseOperation"}

\* the parameters an array declares, references resolved
Declares(parameters) ==
    {Dereferenced(spec, parameters[i]) : i \in 1..Len(parameters)}

PathLevel(path) == Declares(ArrayOrEmpty(FinalPathItem(spec.paths[path]), "parameters"))

MethodLevel(path, method) ==
    Declares(ArrayOrEmpty(FinalPathItem(spec.paths[path])[method], "parameters"))

SameParameter(p, q) == p.location = q.location /\ p.name = q.name

\* the parameters of the operation of a call, all groups together
Grouped(call) ==
    UNION {{call.operation.parameters[location][name] :
               name \in DOMAIN call.operation.parameters[location]} :
           location \in DOMAIN call.operation.parameters}

(***************************************************************************)
(* C9: the parameters of every operation the parser hands to               *)
(* parseOperation are those of the method together with those of the path  *)
(* item that the method does not declare itself: where both declare a      *)
(* parameter of the same location and name, the method's is kept.          *)
(***************************************************************************)
C9_MethodParametersWin ==
    \A i \in OperationCallIndices :
        LET call == parser.calls[i]
            ofMethod == MethodLevel(call.path, call.method)
            ofPathItem == PathLevel(call.path)
        IN /\ Grouped(call) =
                  ofMethod \cup {p \in ofPathItem : \A q \in ofMethod : ~SameParameter(p, q)}
           /\ \A p \in Grouped(call) :
                  call.operation.parameters[p.location][p.name] = p

\* scenario S3 and an inherited parameter: the path item of /pets requires
\* the header version and has the query parameter limit, its get declares
\* version as not required
C9_Witness ==
    \E i \in OperationCallIndices :
        LET call == parser.calls[i]
        IN /\ call.method = "get" /\ call.path = "/pets"
           /\ Version(TRUE) \in PathLevel("/pets")
           /\ Limit(FALSE) \in PathLevel("/pets")
           /\ Version(FALSE) \in MethodLevel("/pets", "get")
           /\ call.operation.parameters["header"]["version"].required = FALSE
           /\ call.operation.parameters["query"]["limit"] = Limit(FALSE)

(***************************************************************************)
(* C10: the parser calls parseParameter, parseRequestBody or parseSchema   *)
(* for a component exactly when the filter accepts its                     *)
(* `#/components/<kind>/<name>`, and parseOperation for a path and method  *)
(* exactly when the merged path item has the method and the filter accepts *)
(* `#/paths<path>/<method>`; it makes no call for anything else, and one   *)
(* call at most.                                                           *)
(***************************************************************************)
\* include is empty or matches, and exclude does not match
Accepted(ref, schema) ==
    /\ \/ input.include = <<>>
       \/ \E i \in 1..Len(input.include) : IsFiltered(ref, schema, input.include[i])
    /\ \A i \in 1..Len(input.exclude) : ~IsFiltered(ref, schema, input.exclude[i])

CallsOf(fn, ref) == {i \in 1..Len(parser.calls) :
                        parser.calls[i].fn = fn /\ parser.calls[i].ref = ref}

\* the function that parses a kind of component, and where the parser is
\* when it has gone over the kind
ParserOf == [parameters |-> "parseParameter", requestBodies |-> "parseRequestBody",
             schemas |-> "parseSchema"]

PastKind == [parameters |-> {"requestBodies", "schemas", "servers", "paths", "done"},
             requestBodies |-> {"schemas", "servers", "paths", "done"},
             schemas |-> {"servers", "paths", "done"}]

OperationsOf(path) ==
    {m \in Range(Methods) : Has(FinalPathItem(spec.paths[path]), m)}

C10_ParsedIffAccepted ==
    /\ \A kind \in DOMAIN ParserOf :
           \A name \in DOMAIN Components(kind) :
               LET ref == <<"components", kind, name>>
                   accepted == Accepted(ref, Dereferenced(spec, Components(kind)[name]))
               IN /\ Cardinality(CallsOf(ParserOf[kind], ref)) <= 1
                  /\ CallsOf(ParserOf[kind], ref) # {} => accepted
                  /\ parser.pc \in PastKind[kind] /\ accepted
                         => CallsOf(ParserOf[kind], ref) # {}
    /\ \A path \in DOMAIN spec.paths :
           \A method \in Range(Methods) :
               LET ref == OperationRef(path, method)
                   accepted == /\ method \in OperationsOf(path)
                               /\ Accepted(ref, FinalPathItem(spec.paths[path])[method])
               IN /\ Cardinality(CallsOf("parseOperation", ref)) <= 1
                  /\ CallsOf("parseOperation", ref) # {} => accepted
                  /\ parser.pc = "done" /\ accepted => CallsOf("parseOperation", ref) # {}
    /\ \A i \in 1..Len(parser.calls) :
           \/ parser.calls[i].fn = "parseServers"
           \/ /\ parser.calls[i].fn = "parseOperation"
              /\ parser.calls[i].ref[1] = "paths"
           \/ \E kind \in DOMAIN ParserOf :
                  /\ parser.calls[i].fn = ParserOf[kind]
                  /\ parser.calls[i].ref[2] = kind

\* the parser is done: exclude kept out the post of /pets and a parameter,
\* include let in the schema A and the get of /pets, and nothing else of
\* the components
C10_Witness ==
    /\ parser.pc = "done"
    /\ input.include # <<>> /\ input.exclude # <<>>
    /\ "post" \in OperationsOf("/pets")
    /\ CallsOf("parseOperation", OperationRef("/pets", "post")) = {}
    /\ CallsOf("parseOperation", OperationRef("/pets", "get")) # {}
    /\ CallsOf("parseSchema", SchemaRef("A")) # {}
    /\ CallsOf("parseSchema", SchemaRef("B")) = {}
    /\ CallsOf("parseParameter", ParameterRef("Page")) = {}
(***************************************************************************)
(* C11: the calls of the parser come in the order of its pipeline: those   *)
(* of parseParameter, then those of parseRequestBody, then those of        *)
(* parseSchema, all of them before any of parseOperation; the calls for    *)
(* the components of one kind come in the order the keys of the kind were  *)
(* set in the document; the calls of parseOperation come path by path in   *)
(* the order the paths were set and, within a path, in the order delete,   *)
(* get, head, options, patch, post, put, trace; and a call once made stays *)
(* where it is, later calls come after it.                                 *)
(***************************************************************************)
StageOf == [parseParameter |-> 1, parseRequestBody |-> 2, parseSchema |-> 3,
            parseServers |-> 4, parseOperation |-> 5]

\* where a key stands among the keys of the document, in the order they were set
SetAt(key) == CHOOSE i \in 1..Len(spec.keys) : spec.keys[i] = key

MethodAt == [delete |-> 1, get |-> 2, head |-> 3, options |-> 4,
             patch |-> 5, post |-> 6, put |-> 7, trace |-> 8]

\* the call c comes before the call d in the pipeline
Before(c, d) ==
    \/ StageOf[c.fn] < StageOf[d.fn]
    \/ /\ c.fn = d.fn /\ c.fn \in {"parseParameter", "parseRequestBody", "parseSchema"}
       /\ SetAt(c.ref[3]) < SetAt(d.ref[3])
    \/ /\ c.fn = d.fn /\ c.fn = "parseOperation"
       /\ \/ SetAt(c.path) < SetAt(d.path)
          \/ c.path = d.path /\ MethodAt[c.method] < MethodAt[d.method]

PipelineOrder ==
    \A i, j \in 1..Len(parser.calls) :
        i < j => Before(parser.calls[i], parser.calls[j])

CallsAppended == IsPrefix(parser.calls, parser.calls')

FirstCreated(id) ==
    CHOOSE i \in 1..Len(created) :
        /\ created[i].id = id
        /\ \A j \in 1..(i - 1) : created[j].id # id

FirstFileWins ==
    \A i \in 1..Len(created) :
        LET id == created[i].id
            first == TypeScriptFile(created[FirstCreated(id)], FirstCreated(id))
        IN /\ File(id).object = first.object
           /\ File(id).dir = first.dir
           /\ File(id).name = first.name

\* a file of the map stays the file of its id and keeps what it has
FileKept ==
    \A id \in DOMAIN files :
        /\ files'[id].object = files[id].object
        /\ IsPrefix(files[id].nodes, files'[id].nodes)
        /\ files[id].imports \subseteq files'[id].imports

C12_ExistingFileWins == []FirstFileWins /\ [][FileKept]_vars
(***************************************************************************)
(* Reading the request schema of the operation in the zod file.            *)
(***************************************************************************)
IsMethodCall(e, name) ==
    /\ e.k = "call" /\ e.functionName.k = "propertyAccess"
    /\ e.functionName.name = name

\* the expression under .optional(), when it is there
Base(e) == IF IsMethodCall(e, "optional") THEN e.functionName.expression ELSE e

IsZObject(e) ==
    /\ IsMethodCall(e, "object") /\ e.functionName.expression = zIdentifier
    /\ Len(e.parameters) = 1 /\ e.parameters[1].k = "objectLiteral"

\* the names of the members of z.object({...}), in their order
MemberNames(e) == [i \in 1..Len(e.parameters[1].properties) |->
                      e.parameters[1].properties[i].name]

Member(e, name) ==
    LET properties == e.parameters[1].properties
    IN properties[CHOOSE i \in 1..Len(properties) : properties[i].name = name].initializer

\* a member of z.object({...}) is required when it is not .optional()
RequiredMember(e, name) == ~IsMethodCall(Member(e, name), "optional")

RequestRef == ZodDataRef(ir.operation.id)

RequestNodes == {i \in 1..Len(zodFile.nodes) :
                    /\ RequestRef \in DOMAIN zodFile.names
                    /\ zodFile.nodes[i].name = zodFile.names[RequestRef]}

RequestObject == NodeOf(RequestRef).expression

\* the member of the request schema for a group of parameters
MemberOfGroup == [header |-> "headers", path |-> "path", query |-> "query"]

\* the parameters of a group of the operation of the IR
GroupOf(place) ==
    IF Has(ir.operation, "parameters") /\ Has(ir.operation.parameters, place)
    THEN Range(ir.operation.parameters[place]) ELSE {}

IsRequiredParameter(parameter) == Has(parameter, "required") /\ parameter.required

(***************************************************************************)
(* C13: in the request schema of the operation, each of headers, path and  *)
(* query is required exactly when a parameter of its own group is          *)
(* required, body is required exactly when operation.body.required, and a  *)
(* member of a group is required exactly when its parameter is.            *)
(***************************************************************************)
C13_RequiredFlags ==
    Declared(RequestRef) =>
        /\ \A place \in DOMAIN MemberOfGroup :
               /\ RequiredMember(RequestObject, MemberOfGroup[place])
                      <=> \E parameter \in GroupOf(place) : IsRequiredParameter(parameter)
               /\ \A parameter \in GroupOf(place) :
                      RequiredMember(Base(Member(RequestObject, MemberOfGroup[place])),
                                     parameter.name)
                          <=> IsRequiredParameter(parameter)
        /\ RequiredMember(RequestObject, "body")
               <=> /\ Has(ir.operation, "body")
                   /\ IsRequiredParameter(ir.operation.body)
(***************************************************************************)
(* C14: when requests are enabled, handling the operation leaves exactly   *)
(* one request schema in the file, and none when they are not; it is       *)
(* z.object with exactly the members body, headers, path and query; body   *)
(* is the schema of the body when the operation has one and z.never()      *)
(* otherwise; headers, path and query are each the z.object of the         *)
(* parameters of the group, by name, when the group has a parameter and    *)
(* z.never() otherwise; an operation without parameters and without body   *)
(* gets four z.never() members, none of them required.                     *)
(***************************************************************************)
\* the expression expected for the schemas the bodies of the model have
Expected(schema) ==
    IF Has(schema, "ref") THEN Identifier(zodFile.names[schema.ref])
    ELSE CallExpression(PropertyAccess(Identifier("z"), "string"), <<>>)

ZNever == CallExpression(PropertyAccess(Identifier("z"), "never"), <<>>)

\* the names of the parameters of a group, in their order
ParameterNamesOf(place) ==
    IF GroupOf(place) = {} THEN <<>>
    ELSE [i \in 1..Len(ir.operation.parameters[place]) |->
             ir.operation.parameters[place][i].name]

C14_RequestSchema ==
    /\ Cardinality(RequestNodes) <= 1
    /\ ~zodConfig.requests => RequestNodes = {}
    /\ zodConfig.requests /\ last.ref = RequestRef => Cardinality(RequestNodes) = 1
    /\ Declared(RequestRef) =>
           /\ IsZObject(RequestObject)
           /\ MemberNames(RequestObject) = <<"body", "headers", "path", "query">>
           /\ Base(Member(RequestObject, "body")) =
                  IF Has(ir.operation, "body") THEN Expected(ir.operation.body.schema)
                  ELSE ZNever
           /\ \A place \in DOMAIN MemberOfGroup :
                  LET member == Base(Member(RequestObject, MemberOfGroup[place]))
                  IN IF GroupOf(place) = {} THEN member = ZNever
                     ELSE /\ IsZObject(member)
                          /\ MemberNames(member) = ParameterNamesOf(place)
                          /\ \A parameter \in GroupOf(place) :
                                 Base(Member(member, parameter.name))
                                     = Expected(parameter.schema)
           /\ ~Has(ir.operation, "body") /\ ~Has(ir.operation, "parameters") =>
                  \A name \in {"body", "headers", "path", "query"} :
                      /\ Base(Member(RequestObject, name)) = ZNever
                      /\ ~RequiredMember(RequestObject, name)

\* the operation of the model with a body, a header and two query
\* parameters but no path parameter has been handled
C14_Witness ==
    /\ zodConfig.requests /\ last.ref = RequestRef
    /\ Has(ir.operation, "body") /\ Has(ir.operation.body.schema, "ref")
    /\ GroupOf("path") = {} /\ Cardinality(GroupOf("query")) = 2
    /\ Cardinality(GroupOf("header")) = 1
    /\ Member(RequestObject, "path") =
           CallExpression(PropertyAccess(ZNever, "optional"), <<>>)
    /\ IsZObject(Base(Member(RequestObject, "query")))
(***************************************************************************)
(* C15: when a name of pluginOrder has no record in config.plugins, the    *)
(* error is there before the first plugin is instantiated: no              *)
(* PluginInstance is yielded and none is registered in context.plugins.    *)
(***************************************************************************)
MissingRecord ==
    \E i \in 1..Len(config.pluginOrder) : config.pluginOrder[i] \notin DOMAIN config.plugins

C15_FatalBeforeStep1 ==
    MissingRecord => /\ plugins = EmptyObject
                     /\ gen.pc \in {"start", "threw"}
(***************************************************************************)
(* C16: transformOpenApiSpec does not change context.spec, whatever the    *)
(* enums and readWrite flags are: the document after it is the document    *)
(* before it.                                                              *)
(***************************************************************************)
C16_SpecNotMutated == [][spec' = spec]_vars
(***************************************************************************)
(* C17: for a path item with a $ref, the parser works with the referenced  *)
(* path item overlaid with the inline one: a field the inline path item    *)
(* has is taken from it, any other field from the referenced one.  The     *)
(* calls of parseOperation show it: the methods, the summary and the       *)
(* parameters of the path item they are made for are the overlaid ones.    *)
(* The document, the referenced and the inline path item in it, is never   *)
(* changed.                                                                *)
(***************************************************************************)
Inline(path) == spec.paths[path]

Referenced(path) == spec.components.pathItems[Inline(path).ref[3]]

HasOverlaid(path, field) ==
    \/ Has(Inline(path), field)
    \/ Has(Inline(path), "ref") /\ Has(Referenced(path), field)

Overlaid(path, field) ==
    IF Has(Inline(path), field) THEN Inline(path)[field] ELSE Referenced(path)[field]

\* the parameters the overlaid path item declares, references resolved
OverlaidParameters(path) ==
    IF HasOverlaid(path, "parameters") THEN Declares(Overlaid(path, "parameters")) ELSE {}

OverlayUsed ==
    /\ \A i \in OperationCallIndices :
           LET call == parser.calls[i]
               own == Declares(ArrayOrEmpty(Overlaid(call.path, call.method), "parameters"))
           IN /\ HasOverlaid(call.path, call.method)
              /\ call.operation.operationId = Overlaid(call.path, call.method).operationId
              /\ IF Has(Overlaid(call.path, call.method), "summary")
                 THEN call.operation.summary = Overlaid(call.path, call.method).summary
                 ELSE IF HasOverlaid(call.path, "summary")
                 THEN call.operation.summary = Overlaid(call.path, "summary")
                 ELSE ~Has(call.operation, "summary")
              /\ Grouped(call) =
                     own \cup {p \in OverlaidParameters(call.path) :
                                  \A q \in own : ~SameParameter(p, q)}
    /\ parser.pc = "done" =>
           \A path \in DOMAIN spec.paths, method \in Range(Methods) :
               /\ HasOverlaid(path, method)
               /\ Accepted(OperationRef(path, method), Overlaid(path, method))
               => CallsOf("parseOperation", OperationRef(path, method)) # {}

C17_PathItemOverlay == []OverlayUsed /\ [][spec' = spec]_vars

\* /pets refers to the shared path item and has a summary of its own but
\* neither get nor parameters: the get and the parameters of the shared path
\* item are used, with the summary of /pets
C17_Witness ==
    /\ parser.pc = "done"
    /\ Has(Inline("/pets"), "ref")
    /\ Has(Inline("/pets"), "summary") /\ Has(Referenced("/pets"), "summary")
    /\ Inline("/pets").summary # Referenced("/pets").summary
    /\ ~Has(Inline("/pets"), "get") /\ ~Has(Inline("/pets"), "parameters")
    /\ \E i \in CallsOf("parseOperation", OperationRef("/pets", "get")) :
           /\ parser.calls[i].operation.operationId = "sharedGet"
           /\ parser.calls[i].operation.summary = "pets"
           /\ Version(TRUE) \in Grouped(parser.calls[i])
(***************************************************************************)
(* Reading the declaration of the schema A in the zod file.                *)
(***************************************************************************)
\* a call of a method on an expression other than `z`
IsChained(e) ==
    /\ e.k = "call" /\ e.functionName.k = "propertyAccess"
    /\ e.functionName.expression # zIdentifier

\* the expression a chain of methods starts from
RECURSIVE Root(_)
Root(e) == IF IsChained(e) THEN Root(e.functionName.expression) ELSE e

\* the methods chained on the root, the innermost first
RECURSIVE MethodChain(_)
MethodChain(e) ==
    IF IsChained(e)
    THEN Append(MethodChain(e.functionName.expression), e.functionName.name)
    ELSE <<>>

IsZCall(e, name) == IsMethodCall(e, name) /\ e.functionName.expression = zIdentifier

ShapeRef == SchemaRef("A")

Shape == ir.components.schemas["A"]

ShapeExpression == NodeOf(ShapeRef).expression

(***************************************************************************)
(* C18: schemaToZodSchema takes the first case that applies, of: the       *)
(* schema has a $ref, it has a type, it has items, none of these.  A       *)
(* schema with a $ref is emitted as the name of the referenced schema,     *)
(* also when it has a type or items; a schema with a type as its type,     *)
(* also when it has items; a schema with items, and two of them that      *)
(* differ, as a union or an intersection; a schema with none of them as    *)
(* z.unknown().                                                            *)
(***************************************************************************)
C18_DispatchOrder ==
    Declared(ShapeRef) =>
        IF Has(Shape, "ref")
        THEN /\ Declared(Shape.ref)
             /\ ShapeExpression = Identifier(zodFile.names[Shape.ref])
        ELSE IF Has(Shape, "type")
        THEN IsZCall(Root(ShapeExpression), Shape.type)
        ELSE IF Has(Shape, "items")
        THEN \/ IsZCall(ShapeExpression, "union")
             \/ IsZCall(ShapeExpression, "intersection")
             \/ IsMethodCall(ShapeExpression, "and")
             \/ Cardinality(Range(Shape.items)) = 1
        ELSE ShapeExpression = CallExpression(PropertyAccess(Identifier("z"), "unknown"), <<>>)

\* the schema A with a $ref and a type is declared as the name of B
C18_Witness ==
    /\ Declared(ShapeRef)
    /\ Has(Shape, "ref") /\ Has(Shape, "type")
    /\ ShapeExpression = Identifier("zB")
(***************************************************************************)
(* C19, as the spec has it: a schema with logicalOperator 'and' is emitted *)
(* as a chain of .and() exactly when every one of its items is an object   *)
(* schema, and as z.intersection(...) when some item is not.               *)
(***************************************************************************)
IsIntersectionShape ==
    /\ Has(Shape, "items") /\ ~Has(Shape, "ref") /\ ~Has(Shape, "type")
    /\ Has(Shape, "logicalOperator") /\ Shape.logicalOperator = "and"
    /\ Cardinality(Range(Shape.items)) >= 2

IsObjectSchema(schema) == Has(schema, "type") /\ schema.type = "object"

IsAndChain(e, n) == MethodChain(e) = [i \in 1..(n - 1) |-> "and"]

IsIntersectionOf(e, n) == IsZCall(e, "intersection") /\ Len(e.parameters) = n

C19_AndIffEveryItemObject ==
    Declared(ShapeRef) /\ IsIntersectionShape =>
        IF \A i \in 1..Len(Shape.items) : IsObjectSchema(Shape.items[i])
        THEN IsAndChain(ShapeExpression, Cardinality(Range(Shape.items)))
        ELSE IsIntersectionOf(ShapeExpression, Cardinality(Range(Shape.items)))

(***************************************************************************)
(* C19, amended: a schema with logicalOperator 'and' is emitted as         *)
(* z.intersection(...) of its items exactly when its first item is a union *)
(* (logicalOperator 'or') or has a type other than 'object', and as a      *)
(* chain of .and() on the first item otherwise, whatever the items after   *)
(* the first are.                                                          *)
(***************************************************************************)
FirstForbidsAnd ==
    \/ Has(Shape.items[1], "logicalOperator") /\ Shape.items[1].logicalOperator = "or"
    \/ Has(Shape.items[1], "type") /\ Shape.items[1].type # "object"

C19_AndUnlessFirstItem ==
    Declared(ShapeRef) /\ IsIntersectionShape =>
        IF FirstForbidsAnd
        THEN IsIntersectionOf(ShapeExpression, Cardinality(Range(Shape.items)))
        ELSE IsAndChain(ShapeExpression, Cardinality(Range(Shape.items)))

\* an object and then a string: the chain of .and() although an item is not
\* an object
C19_Witness ==
    /\ Declared(ShapeRef) /\ IsIntersectionShape
    /\ IsObjectSchema(Shape.items[1]) /\ Shape.items[2] = StringSchema
    /\ Len(Shape.items) = 2
    /\ MethodChain(ShapeExpression) = <<"and">>
(***************************************************************************)
(* C20: the modifiers are chained on the expression of a schema in the     *)
(* order .readonly() (accessScope 'read'), .optional() (the property is    *)
(* not required), .default(value) (the schema has a default),              *)
(* .describe(description) (metadata is on and the schema has a             *)
(* description): of those that apply, an earlier one is closer to the      *)
(* expression than a later one, and .describe is the outermost.            *)
(***************************************************************************)
ModifierChain(schema, optional) ==
    (IF Has(schema, "accessScope") /\ schema.accessScope = "read"
     THEN <<"readonly">> ELSE <<>>)
    \o (IF optional THEN <<"optional">> ELSE <<>>)
    \o (IF Has(schema, "default") THEN <<"default">> ELSE <<>>)
    \o (IF zodConfig.metadata /\ Has(schema, "description") THEN <<"describe">> ELSE <<>>)

C20_ModifierOrder ==
    Declared(ShapeRef) /\ Has(Shape, "type") /\ ~Has(Shape, "ref") /\ ~Has(Shape, "items") =>
        IF Shape.type = "object"
        THEN LET property == Shape.properties[1]
             IN MethodChain(Member(Root(ShapeExpression), property.name))
                    = ModifierChain(property.schema,
                                    \A i \in 1..Len(Shape.required) :
                                        Shape.required[i] # property.name)
        ELSE MethodChain(ShapeExpression) = ModifierChain(Shape, FALSE)
(***************************************************************************)
(* C21: an enum schema is emitted as z.enum([...]) of its members that are *)
(* string constants, in their order, with .nullable() exactly when it has  *)
(* a member of type null or with the const null; an enum without a member  *)
(* that is a string constant is emitted as z.unknown(), also when it has a *)
(* null member.                                                            *)
(***************************************************************************)
IsStringConst(item) ==
    /\ Has(item, "type") /\ item.type = "string"
    /\ Has(item, "const") /\ item.const.t = "string"

IsNullMember(item) ==
    \/ Has(item, "type") /\ item.type = "null"
    \/ Has(item, "const") /\ item.const.t = "null"

ShapeItems == IF Has(Shape, "items") THEN Shape.items ELSE <<>>

StringConsts == SelectSeq(ShapeItems, IsStringConst)

ZEnumOfStringConsts ==
    CallExpression(PropertyAccess(Identifier("z"), "enum"),
        <<[k |-> "arrayLiteral",
           elements |-> [i \in 1..Len(StringConsts) |->
                            [k |-> "stringLiteral", text |-> StringConsts[i].const.s]]]>>)

C21_EnumMembers ==
    Declared(ShapeRef) /\ Has(Shape, "type") /\ Shape.type = "enum" =>
        IF StringConsts = <<>>
        THEN ShapeExpression = CallExpression(PropertyAccess(Identifier("z"), "unknown"), <<>>)
        ELSE IF \E i \in 1..Len(ShapeItems) : IsNullMember(ShapeItems[i])
        THEN ShapeExpression =
                 CallExpression(PropertyAccess(ZEnumOfStringConsts, "nullable"), <<>>)
        ELSE ShapeExpression = ZEnumOfStringConsts

\* the enum of 'red', 'green' and null is declared
C21_Witness ==
    /\ Declared(ShapeRef) /\ Has(Shape, "type") /\ Shape.type = "enum"
    /\ Len(ShapeItems) = 3 /\ Len(StringConsts) = 2
    /\ StringConsts[1].const.s = "red" /\ StringConsts[2].const.s = "green"
    /\ IsNullMember(ShapeItems[3])
    /\ MethodChain(ShapeExpression) = <<"nullable">>
(***************************************************************************)
(* C22: a number or integer schema without a const has .gt(exclusive       *)
(* minimum) when it has an exclusiveMinimum and otherwise .gte(minimum)    *)
(* when it has a minimum, then .lt(exclusiveMaximum) when it has an        *)
(* exclusiveMaximum and otherwise .lte(maximum) when it has a maximum, and *)
(* no other bound; one with a number const is z.literal(const) and has no  *)
(* bound.                                                                  *)
(***************************************************************************)
IsNumberShape == Has(Shape, "type") /\ Shape.type \in {"integer", "number"}

IsBound(method) == method \in {"gt", "gte", "lt", "lte"}

BoundField == [gt |-> "exclusiveMinimum", gte |-> "minimum",
               lt |-> "exclusiveMaximum", lte |-> "maximum"]

\* the call of the method `name` in a chain that has it
RECURSIVE ChainCall(_, _)
ChainCall(e, name) ==
    IF e.functionName.name = name THEN e ELSE ChainCall(e.functionName.expression, name)

\* the number written as n or as BigInt(n)
NumberIn(e) == IF e.k = "call" THEN e.parameters[1].number ELSE e.number

LowerBound ==
    IF Has(Shape, "exclusiveMinimum") THEN <<"gt">>
    ELSE IF Has(Shape, "minimum") THEN <<"gte">> ELSE <<>>

UpperBound ==
    IF Has(Shape, "exclusiveMaximum") THEN <<"lt">>
    ELSE IF Has(Shape, "maximum") THEN <<"lte">> ELSE <<>>

ShapeBounds == SelectSeq(MethodChain(ShapeExpression), IsBound)

C22_NumberBounds ==
    Declared(ShapeRef) /\ IsNumberShape =>
        IF Has(Shape, "const")
        THEN /\ Root(ShapeExpression)
                    = CallExpression(PropertyAccess(Identifier("z"), "literal"),
                          <<[k |-> "numericLiteral", number |-> Shape.const.n]>>)
             /\ ShapeBounds = <<>>
        ELSE /\ ShapeBounds = LowerBound \o UpperBound
             /\ \A i \in 1..Len(ShapeBounds) :
                    LET call == ChainCall(ShapeExpression, ShapeBounds[i])
                    IN /\ Len(call.parameters) = 1
                       /\ NumberIn(call.parameters[1]) = Shape[BoundField[ShapeBounds[i]]]

\* a number with the four bounds is declared with .gt(0).lt(10)
C22_Witness ==
    /\ Declared(ShapeRef) /\ IsNumberShape /\ ~Has(Shape, "const")
    /\ Has(Shape, "minimum") /\ Has(Shape, "exclusiveMinimum")
    /\ Has(Shape, "maximum") /\ Has(Shape, "exclusiveMaximum")
    /\ ShapeBounds = <<"gt", "lt">>
    /\ NumberIn(ChainCall(ShapeExpression, "gt").parameters[1]) = 0
    /\ NumberIn(ChainCall(ShapeExpression, "lt").parameters[1]) = 10
(***************************************************************************)
(* C23: an integer schema of format int64 without a const is emitted as    *)
(* z.coerce.bigint(), without .int(), and the values of its bounds and of  *)
(* its default are written BigInt(value); a number or integer schema that  *)
(* is not an integer of format int64 has neither z.coerce.bigint() nor     *)
(* BigInt(...).  As first stated, for number schemas of format int64 too.  *)
(***************************************************************************)
IsInt64Shape == Has(Shape, "format") /\ Shape.format = "int64"

\* the parameters of the calls of a chain of methods
RECURSIVE ChainParameters(_)
ChainParameters(e) ==
    IF IsChained(e)
    THEN Range(e.parameters) \cup ChainParameters(e.functionName.expression)
    ELSE IF e.k = "call" THEN Range(e.parameters) ELSE {}

BigIntOf(n) ==
    CallExpression(Identifier("BigInt"), <<[k |-> "numericLiteral", number |-> n]>>)

\* z.coerce.bigint() is a chain on z.coerce whose first method is bigint
IsBigIntExpression(e) ==
    /\ Root(e) = PropertyAccess(Identifier("z"), "coerce")
    /\ MethodChain(e)[1] = "bigint"
    /\ \A i \in 1..Len(MethodChain(e)) : MethodChain(e)[i] # "int"
    /\ ShapeBounds = LowerBound \o UpperBound
    /\ \A i \in 1..Len(ShapeBounds) :
           ChainCall(e, ShapeBounds[i]).parameters
               = <<BigIntOf(Shape[BoundField[ShapeBounds[i]]])>>
    /\ Has(Shape, "default") =>
           ChainCall(e, "default").parameters = <<BigIntOf(Shape.default.n)>>

HasNoBigInt(e) ==
    /\ IsZCall(Root(e), "number") \/ IsZCall(Root(e), "literal")
    /\ \A parameter \in ChainParameters(e) : parameter.k = "numericLiteral"

C23_Int64IsBigInt ==
    Declared(ShapeRef) /\ IsNumberShape =>
        /\ IsInt64Shape /\ ~Has(Shape, "const") => IsBigIntExpression(ShapeExpression)
        /\ ~IsInt64Shape => HasNoBigInt(ShapeExpression)

C23_IntegerInt64IsBigInt ==
    Declared(ShapeRef) /\ IsNumberShape =>
        /\ Shape.type = "integer" /\ IsInt64Shape /\ ~Has(Shape, "const") =>
               IsBigIntExpression(ShapeExpression)
        /\ ~(Shape.type = "integer" /\ IsInt64Shape) => HasNoBigInt(ShapeExpression)

\* an integer of format int64 with bounds and a default is declared
C23_Witness ==
    /\ Declared(ShapeRef) /\ IsNumberShape /\ Shape.type = "integer" /\ IsInt64Shape
    /\ ~Has(Shape, "const") /\ Has(Shape, "default")
    /\ MethodChain(ShapeExpression) = <<"bigint", "gte", "lte", "default">>
    /\ ChainCall(ShapeExpression, "gte").parameters = <<BigIntOf(1)>>
    /\ ChainCall(ShapeExpression, "default").parameters = <<BigIntOf(2)>>
(***************************************************************************)
(* C24: a string schema without a const is z.string() followed by, in this *)
(* order, the refinement of its format when the format has one, .length(n) *)
(* when minLength and maxLength are both there and equal and otherwise     *)
(* .min(minLength) and .max(maxLength) for those that are there, and       *)
(* .regex(pattern) when it has a pattern that is not the empty string, and *)
(* by nothing else; one with a string const is z.literal(const).           *)
(***************************************************************************)
IsStringShape == Has(Shape, "type") /\ Shape.type = "string"

FormatRefinement ==
    ("date-time" :> "datetime") @@ ("ipv4" :> "ip") @@ ("ipv6" :> "ip") @@ ("uri" :> "url")
        @@ ("date" :> "date") @@ ("email" :> "email") @@ ("time" :> "time")
        @@ ("uuid" :> "uuid")

FormatPart ==
    IF Has(Shape, "format") /\ Shape.format \in DOMAIN FormatRefinement
    THEN <<[method |-> FormatRefinement[Shape.format], parameters |-> <<>>]>>
    ELSE <<>>

Sized(method, n) ==
    <<[method |-> method, parameters |-> <<[k |-> "numericLiteral", number |-> n]>>]>>

LengthPart ==
    IF Has(Shape, "minLength") /\ Has(Shape, "maxLength")
           /\ Shape.minLength = Shape.maxLength
    THEN Sized("length", Shape.minLength)
    ELSE (IF Has(Shape, "minLength") THEN Sized("min", Shape.minLength) ELSE <<>>)
         \o (IF Has(Shape, "maxLength") THEN Sized("max", Shape.maxLength) ELSE <<>>)

RegexPart ==
    IF Has(Shape, "pattern") /\ Shape.pattern # ""
    THEN <<[method |-> "regex",
            parameters |-> <<[k |-> "regexLiteral", text |-> Shape.pattern]>>]>>
    ELSE <<>>

\* the calls chained on the root, the innermost first
RECURSIVE CallChain(_)
CallChain(e) ==
    IF IsChained(e)
    THEN Append(CallChain(e.functionName.expression),
                [method |-> e.functionName.name, parameters |-> e.parameters])
    ELSE <<>>

C24_StringRefinements ==
    Declared(ShapeRef) /\ IsStringShape =>
        IF Has(Shape, "const")
        THEN ShapeExpression
                 = CallExpression(PropertyAccess(Identifier("z"), "literal"),
                       <<[k |-> "stringLiteral", text |-> Shape.const.s]>>)
        ELSE /\ Root(ShapeExpression)
                    = CallExpression(PropertyAccess(Identifier("z"), "string"), <<>>)
             /\ CallChain(ShapeExpression) = FormatPart \o LengthPart \o RegexPart

\* a string with a format, two lengths that differ and a pattern is declared
\* with the four refinements
C24_Witness ==
    /\ Declared(ShapeRef) /\ IsStringShape /\ ~Has(Shape, "const")
    /\ Has(Shape, "format") /\ Shape.format = "date-time"
    /\ Has(Shape, "minLength") /\ Shape.minLength = 1
    /\ Has(Shape, "maxLength") /\ Shape.maxLength = 2
    /\ Has(Shape, "pattern") /\ Shape.pattern = "^a"
    /\ MethodChain(ShapeExpression) = <<"datetime", "min", "max", "regex">>
(***************************************************************************)
(* C25: an object schema is emitted as z.object with one property per      *)
(* entry of its properties, those whose name is an array index first, in   *)
(* ascending order, then the others in the order they were inserted; the   *)
(* expression of a property has .optional() exactly when the name is not   *)
(* in `required`, so every one has when there is no `required`.  As first  *)
(* stated, every property is emitted in insertion order.                   *)
(***************************************************************************)
IsObjectShape == Has(Shape, "type") /\ Shape.type = "object"

ShapeProperties == IF Has(Shape, "properties") THEN Shape.properties ELSE <<>>

InsertionOrder == [i \in 1..Len(ShapeProperties) |-> ShapeProperties[i].name]

IsIndexName(name) == name \in {"0", "1", "2"}

IsNamed(name) == ~IsIndexName(name)

\* i-th and j-th names are in the order of the own keys of the object
InKeyOrder(names, i, j) ==
    \/ IsIndexName(names[i]) /\ IsNamed(names[j])
    \/ /\ IsIndexName(names[i]) /\ IsIndexName(names[j])
       /\ \E a, b \in 1..3 : a < b /\ names[i] = <<"0", "1", "2">>[a]
                                   /\ names[j] = <<"0", "1", "2">>[b]
    \/ /\ IsNamed(names[i]) /\ IsNamed(names[j])
       /\ \E a, b \in 1..Len(InsertionOrder) :
              a < b /\ InsertionOrder[a] = names[i] /\ InsertionOrder[b] = names[j]

OptionalIffNotRequired ==
    \A i \in 1..Len(ShapeProperties) :
        LET name == ShapeProperties[i].name
            chain == MethodChain(Member(ShapeExpression, name))
        IN (\E j \in 1..Len(chain) : chain[j] = "optional")
               <=> ~(/\ Has(Shape, "required")
                     /\ \E j \in 1..Len(Shape.required) : Shape.required[j] = name)

C25_InsertionOrder ==
    Declared(ShapeRef) /\ IsObjectShape =>
        /\ IsZObject(ShapeExpression)
        /\ MemberNames(ShapeExpression) = InsertionOrder
        /\ OptionalIffNotRequired

C25_KeyOrder ==
    Declared(ShapeRef) /\ IsObjectShape =>
        /\ IsZObject(ShapeExpression)
        /\ Len(MemberNames(ShapeExpression)) = Len(ShapeProperties)
        /\ Range(MemberNames(ShapeExpression)) = Range(InsertionOrder)
        /\ \A i, j \in 1..Len(ShapeProperties) :
               i < j => InKeyOrder(MemberNames(ShapeExpression), i, j)
        /\ OptionalIffNotRequired

\* the object of the properties name, 2 and 1, of which 2 is required, is
\* declared with the properties 1, 2 and name
C25_Witness ==
    /\ Declared(ShapeRef) /\ IsObjectShape
    /\ InsertionOrder = <<"name", "2", "1">>
    /\ Has(Shape, "required") /\ Shape.required = <<"2">>
    /\ MemberNames(ShapeExpression) = <<"1", "2", "name">>
    /\ MethodChain(Member(ShapeExpression, "1")) = <<"int", "optional">>
    /\ MethodChain(Member(ShapeExpression, "2")) = <<>>
    /\ MethodChain(Member(ShapeExpression, "name")) = <<"optional">>
(***************************************************************************)
(* C26: wherever the handler of an event enters a call with a $ref, leaves *)
(* one or meets a reference, circularReferenceTracker is the set of the    *)
(* $refs of the calls it is inside of; the $ref of a call it enters is the *)
(* $ref of no call around it; and the handler ends with an empty tracker.  *)
(***************************************************************************)
TrackerIsActiveCalls ==
    \A i \in 1..Len(last.trace) :
        last.trace[i].tracker = {last.trace[i].active[j] : j \in 1..Len(last.trace[i].active)}

EnteredOnce ==
    \A i \in 1..Len(last.trace) :
        last.trace[i].op = "enter" =>
            LET active == last.trace[i].active
            IN /\ active # <<>> /\ active[Len(active)] = last.trace[i].ref
               /\ \A j \in 1..(Len(active) - 1) : active[j] # last.trace[i].ref

C26_TrackerIsActiveCalls ==
    /\ TrackerIsActiveCalls
    /\ EnteredOnce
    /\ ~last.overflow => last.state.circularReferenceTracker = {}

\* the handler was three calls deep, met a reference to the $ref of a call
\* around it, and has come back from all of them
C26_Witness ==
    /\ \E i \in 1..Len(last.trace) :
           /\ last.trace[i].op = "ref" /\ last.trace[i].lazy
           /\ Len(last.trace[i].active) = 3
           /\ Cardinality(last.trace[i].tracker) = 3
    /\ \E i \in 1..Len(last.trace) :
           last.trace[i].op = "leave" /\ last.trace[i].active = <<>>
    /\ ~last.overflow
    /\ last.state.circularReferenceTracker = {}
(***************************************************************************)
(* C27: a declaration the handler of an event appends has a type           *)
(* annotation exactly when the handler emitted a lazy reference before it  *)
(* appended the declaration: every declaration after the first lazy        *)
(* reference of the event has one, whether its schema reaches itself or    *)
(* not, and none has one for a lazy reference of an earlier event.         *)
(***************************************************************************)
DeclareEntries == {i \in 1..Len(last.trace) : last.trace[i].op = "declare"}

LazyBefore(i) ==
    \E j \in 1..(i - 1) : last.trace[j].op = "ref" /\ last.trace[j].lazy

NodeNamed(name) ==
    zodFile.nodes[CHOOSE k \in 1..Len(zodFile.nodes) : zodFile.nodes[k].name = name]

IsAnnotated(node) == node.typeName # "undefined"

C27_AnnotatedIffLazyBefore ==
    \A i \in DeclareEntries :
        IsAnnotated(NodeNamed(last.trace[i].name)) <=> LazyBefore(i)

\* the file holds an annotated declaration of a schema that does not reach
\* itself, and the handler of a later event, which emitted no lazy
\* reference, has appended a declaration without annotation
C27_Witness ==
    /\ \E r \in ComponentRefs :
           Declared(r) /\ ~Cyclic(r) /\ IsAnnotated(NodeOf(r))
    /\ \E i \in DeclareEntries : ~IsAnnotated(NodeNamed(last.trace[i].name))
    /\ ~last.state.hasCircularReference
(***************************************************************************)
(* C28: of the flags isResolved, isRejected and isCancelled of a           *)
(* CancelablePromise at most one is true, and once one is true no call of  *)
(* resolve, reject, cancel or onCancel changes a flag, the cancel          *)
(* handlers, or the promise it wraps, or invokes a handler.                *)
(***************************************************************************)
FlagsOf(p) == <<p.isResolved, p.isRejected, p.isCancelled>>

AtMostOneFlag ==
    Cardinality({i \in 1..3 : FlagsOf(promise)[i]}) <= 1

Absorbed ==
    (\E i \in 1..3 : FlagsOf(promise)[i]) =>
        /\ FlagsOf(promise') = FlagsOf(promise)
        /\ promise'.cancelHandlers = promise.cancelHandlers
        /\ promise'.state = promise.state /\ promise'.result = promise.result
        /\ promise'.invoked = promise.invoked

C28_FirstSettlementAbsorbs == []AtMostOneFlag /\ [][Absorbed]_vars

\* the promise was resolved, and cancel, reject and onCancel were called
\* after that
C28_Witness ==
    /\ promise.called = <<"onCancel", "resolve", "cancel", "reject", "onCancel">>
    /\ FlagsOf(promise) = <<TRUE, FALSE, FALSE>>
    /\ Len(promise.cancelHandlers) = 1
    /\ promise.state = "fulfilled"

(***************************************************************************)
(* C29: a call of cancel() on a pending CancelablePromise invokes every    *)
(* registered cancel handler once, in the order of registration, empties   *)
(* the list of handlers, and rejects the promise with                      *)
(* CancelError('Request aborted'), whether the handlers return or throw.   *)
(***************************************************************************)
CancelRunsEveryHandler ==
    ~promise.isCancelled /\ promise'.isCancelled =>
        /\ promise'.invoked = [i \in 1..Len(promise.cancelHandlers) |-> i]
        /\ promise'.cancelHandlers = <<>>
        /\ promise'.state = "rejected"
        /\ promise'.result = [name |-> "CancelError", message |-> "Request aborted"]

C29_CancelRunsEveryHandler == [][CancelRunsEveryHandler]_vars
(***************************************************************************)
(* C30: a listener subscribed to the event of a broadcast while the        *)
(* broadcast awaits a listener is appended after the listeners called so   *)
(* far; the broadcast goes on with the next listener of the array as it is *)
(* then and resolves only when it has called the last one, so the late     *)
(* listener is called in this broadcast, after all those before it, unless *)
(* a listener before it rejects.  A subscription to another event does not *)
(* change the listeners of the broadcast.                                  *)
(***************************************************************************)
Suspended == bc.pc = "awaiting"

Subscribes(event) ==
    /\ event \in DOMAIN listeners'
    /\ event \in DOMAIN listeners => listeners'[event] # listeners[event]

\* a subscription to the event of the suspended broadcast
LateListenerAhead ==
    Suspended /\ Subscribes(bc.event) =>
        /\ bc' = bc /\ calls' = calls
        /\ Len(listeners'[bc.event]) = Len(listeners[bc.event]) + 1
        /\ \A k \in 1..Len(listeners[bc.event]) :
               listeners'[bc.event][k] = listeners[bc.event][k]
        /\ bc.i < Len(listeners'[bc.event])

\* a subscription to another event
OtherEventApart ==
    \A event \in {"schema", "operation"} \ {bc.event} :
        Suspended /\ Subscribes(event) =>
            /\ bc' = bc /\ calls' = calls
            /\ listeners'[bc.event] = listeners[bc.event]

\* the suspended broadcast goes on: with the listener after the one it
\* awaited, or to its end when the array has none
GoesOnWithLiveArray ==
    Suspended /\ bc' # bc /\ bc'.pc # "rejected" =>
        IF bc.i < Len(listeners[bc.event])
        THEN /\ bc'.i = bc.i + 1 /\ bc'.pc = "awaiting"
             /\ calls'[Len(calls')].op = "call"
             /\ calls'[Len(calls')].callbackFn = listeners[bc.event][bc.i + 1].callbackFn
             /\ calls'[Len(calls')].pluginName = listeners[bc.event][bc.i + 1].pluginName
        ELSE bc'.pc = "resolved" /\ bc'.i = bc.i

C30_LateListenerInvoked ==
    [][LateListenerAhead /\ OtherEventApart /\ GoesOnWithLiveArray]_vars

\* the broadcast was called with one listener and has resolved after three:
\* the second and third were subscribed while it was suspended
C30_Witness ==
    /\ bc.pc = "resolved"
    /\ bc.size = 1 /\ bc.i = 3
    /\ Len(listeners[bc.event]) = 3
    /\ calls[5].op = "call"
    /\ calls[5].callbackFn = listeners[bc.event][3].callbackFn
    /\ calls[6].how = "fulfilled"
====
